---- MODULE Spec2Model ----
(***************************************************************************)
(* The validated, audited mutation pipeline of the hospital CRUD service:  *)
(* the FastAPI handlers of src/api/main.py over the MySQL schema, stored   *)
(* procedures and trigger of src/task1_mysql.py.                           *)
(*                                                                         *)
(* A table is the set of its rows.  A nullable value is the empty tuple    *)
(* (SQL NULL, Python None) or the one-element tuple of the value.  Dates   *)
(* are day numbers.  The timestamps of the two log tables are left out:    *)
(* no handler reads them.                                                  *)
(***************************************************************************)
EXTENDS Integers, Sequences, FiniteSets, TLC

VARIABLES
    patients,            \* table patients
    staff,               \* table staff
    staff_schedule,      \* table staff_schedule
    services_weekly,     \* table services_weekly
    audit_log,           \* table audit_log, in id order
    validation_errors,   \* table validation_errors, in id order
    schedule_auto_inc,   \* AUTO_INCREMENT counter of staff_schedule
    weekly_auto_inc,     \* AUTO_INCREMENT counter of services_weekly
    sp_call,             \* the CALL sp_insert_patient in flight, statement by statement
    patients_coll,       \* collection patients of the document store, in natural order
    staff_coll,          \* collection staff of the document store, in natural order
    services_weekly_coll, \* collection services_weekly of the document store
    staff_schedule_coll, \* collection staff_schedule of the document store
    pending,             \* the POST /staff-schedule requests between INSERT and SELECT
    last,                \* the last request and the response it got
    nreq                 \* requests served so far

vars == <<patients, staff, staff_schedule, services_weekly, audit_log,
          validation_errors, schedule_auto_inc, weekly_auto_inc, sp_call,
          patients_coll, staff_coll, services_weekly_coll, staff_schedule_coll,
          pending, last, nreq>>

tables == <<patients, staff, staff_schedule, services_weekly>>
logs == <<audit_log, validation_errors>>
counters == <<schedule_auto_inc, weekly_auto_inc>>
documents == <<patients_coll, staff_coll, services_weekly_coll, staff_schedule_coll>>

(***************************************************************************)
(* Bounds of the model.                                                    *)
(***************************************************************************)
MaxRequests == 3

(***************************************************************************)
(* Nullable values.                                                        *)
(***************************************************************************)
NULL == <<>>
Some(v) == <<v>>

\* IFNULL(x, '') of a string column
IfNullEmpty(x) == IF x = NULL THEN "" ELSE x[1]

\* An UPDATE ... SET of the columns in DOMAIN assigns
SetColumns(row, assigns) ==
    [f \in DOMAIN row |-> IF f \in DOMAIN assigns THEN assigns[f] ELSE row[f]]

\* dict restricted to a set of keys
Restrict(d, keys) == [f \in keys |-> d[f]]

(***************************************************************************)
(* Key generators: token_hex is a random draw, so a generated key is any   *)
(* member of the key space, used or not.                                   *)
(***************************************************************************)
PatientIds == {"PAT-00c1", "PAT-00c2"}
StaffIds == {"STF-0a1", "STF-0a2"}

generate_patient_id == PatientIds
generate_staff_id == StaffIds

(***************************************************************************)
(* Field limits of the request schemas.                                    *)
(***************************************************************************)
MaxNameLen == 255
MaxLabelLen == 64
MinScore == 0
MaxScore == 100
MinAge == 0

(***************************************************************************)
(* audit_log and validation_errors                                         *)
(***************************************************************************)
sp_log_change(log, p_table_name, p_row_pk, p_operation, p_old, p_new, p_user) ==
    Append(log, [table_name |-> p_table_name, row_pk |-> p_row_pk,
                 operation |-> p_operation, old_values |-> p_old,
                 new_values |-> p_new, changed_by |-> p_user])

(***************************************************************************)
(* Patients                                                                *)
(***************************************************************************)
PatientFields == {"name", "age", "arrival_date", "departure_date", "service", "satisfaction"}

\* The departure_date validator of PatientIn and PatientPatch: it sees the
\* fields of the same request body only.
validate_dates(v, arrival) == ~(v # NULL /\ arrival # NULL /\ v[1] < arrival[1])

\* PatientIn: TRUE when the request body passes the schema
PatientIn(body) ==
    /\ body.name # NULL
    /\ Len(body.name[1]) >= 1 /\ Len(body.name[1]) <= MaxNameLen
    /\ body.age # NULL => body.age[1] >= MinAge
    /\ body.service # NULL => Len(body.service[1]) <= MaxLabelLen
    /\ body.satisfaction # NULL =>
          body.satisfaction[1] >= MinScore /\ body.satisfaction[1] <= MaxScore
    /\ validate_dates(body.departure_date, body.arrival_date)

\* PatientPatch without the ge/le constraints of satisfaction
PatientPatch_unbounded(body) ==
    /\ ("name" \in body.fields_set /\ body.data.name # NULL) =>
          Len(body.data.name[1]) >= 1 /\ Len(body.data.name[1]) <= MaxNameLen
    /\ ("age" \in body.fields_set /\ body.data.age # NULL) => body.data.age[1] >= MinAge
    /\ ("service" \in body.fields_set /\ body.data.service # NULL) =>
          Len(body.data.service[1]) <= MaxLabelLen
    /\ "departure_date" \in body.fields_set =>
          validate_dates(body.data.departure_date, body.data.arrival_date)

\* PatientPatch: a body is the set of fields it carries and their values
\* (a field it does not carry has the default None); constraints and the
\* validator run on the fields carried.
PatientPatch(body) ==
    /\ ("name" \in body.fields_set /\ body.data.name # NULL) =>
          Len(body.data.name[1]) >= 1 /\ Len(body.data.name[1]) <= MaxNameLen
    /\ ("age" \in body.fields_set /\ body.data.age # NULL) => body.data.age[1] >= MinAge
    /\ ("service" \in body.fields_set /\ body.data.service # NULL) =>
          Len(body.data.service[1]) <= MaxLabelLen
    /\ ("satisfaction" \in body.fields_set /\ body.data.satisfaction # NULL) =>
          body.data.satisfaction[1] >= MinScore /\ body.data.satisfaction[1] <= MaxScore
    /\ "departure_date" \in body.fields_set =>
          validate_dates(body.data.departure_date, body.data.arrival_date)

\* v_err of a procedure that tests age in an ELSEIF of the satisfaction test
sp_insert_patient_err_elseif(p) ==
    IF p.satisfaction # NULL /\ (p.satisfaction[1] < 0 \/ p.satisfaction[1] > 100)
    THEN <<[field |-> "satisfaction", value |-> p.satisfaction[1]]>>
    ELSE IF p.age # NULL /\ p.age[1] < 0
    THEN <<[field |-> "age", value |-> p.age[1]]>>
    ELSE <<>>

\* v_err of sp_insert_patient: CONCAT_WS(';', ...) of the violations, NULL
\* (the empty list) when there is none
sp_insert_patient_err(p) ==
    (IF p.satisfaction # NULL /\ (p.satisfaction[1] < 0 \/ p.satisfaction[1] > 100)
     THEN <<[field |-> "satisfaction", value |-> p.satisfaction[1]]>> ELSE <<>>)
    \o
    (IF p.age # NULL /\ p.age[1] < 0
     THEN <<[field |-> "age", value |-> p.age[1]]>> ELSE <<>>)

\* v_payload of sp_insert_patient: the JSON-like text of the parameters; a
\* NULL string is written as '' like the empty string, a NULL date as '' and
\* a NULL number as null
sp_insert_patient_payload(p) ==
    [patient_id |-> IfNullEmpty(p.patient_id),
     name |-> IfNullEmpty(p.name),
     age |-> p.age,
     arrival_date |-> p.arrival_date,
     departure_date |-> p.departure_date,
     service |-> IfNullEmpty(p.service),
     satisfaction |-> p.satisfaction]

\* The row INSERT INTO patients stores for the parameters
PatientRow(p) ==
    [patient_id |-> p.patient_id[1], name |-> p.name, age |-> p.age,
     arrival_date |-> p.arrival_date, departure_date |-> p.departure_date,
     service |-> p.service, satisfaction |-> p.satisfaction]

\* INSERT INTO patients without the PRIMARY KEY on patient_id
PatientInsertOk_no_primary_key(tbl, p) ==
    /\ p.patient_id # NULL
    /\ p.name # NULL

\* INSERT INTO patients fails on a NULL or duplicate primary key and on a NULL name
PatientInsertOk(tbl, p) ==
    /\ p.patient_id # NULL
    /\ p.name # NULL
    /\ \A r \in tbl : r.patient_id # p.patient_id[1]

\* The INSERT INTO validation_errors with v_new, still NULL, as the payload
sp_insert_patient_reject_v_new(errs, p) ==
    Append(errs, [table_name |-> "patients", row_pk |-> p.patient_id,
                  error_message |-> sp_insert_patient_err(p),
                  payload |-> NULL])

\* The INSERT INTO validation_errors of sp_insert_patient
sp_insert_patient_reject(errs, p) ==
    Append(errs, [table_name |-> "patients", row_pk |-> p.patient_id,
                  error_message |-> sp_insert_patient_err(p),
                  payload |-> sp_insert_patient_payload(p)])

\* The CALL sp_log_change with the new values passed as the old ones
sp_insert_patient_log_swapped(log, p, p_user) ==
    sp_log_change(log, "patients", p.patient_id, "INSERT",
                  Some(sp_insert_patient_payload(p)), NULL, p_user)

\* The CALL sp_log_change of sp_insert_patient
sp_insert_patient_log(log, p, p_user) ==
    sp_log_change(log, "patients", p.patient_id, "INSERT", NULL,
                  Some(sp_insert_patient_payload(p)), p_user)

\* sp_insert_patient with the INSERT INTO patients placed before the IF v_err
sp_insert_patient_insert_first(p, p_user) ==
    IF PatientInsertOk(patients, p)
    THEN [patients |-> patients \cup {PatientRow(p)},
          audit_log |-> IF sp_insert_patient_err(p) # <<>> THEN audit_log
                        ELSE sp_insert_patient_log(audit_log, p, p_user),
          validation_errors |-> IF sp_insert_patient_err(p) # <<>>
                                THEN sp_insert_patient_reject(validation_errors, p)
                                ELSE validation_errors,
          status |-> IF sp_insert_patient_err(p) # <<>> THEN "validation_failed"
                     ELSE "inserted",
          error_message |-> sp_insert_patient_err(p)]
    ELSE [patients |-> patients, audit_log |-> audit_log,
          validation_errors |-> validation_errors,
          status |-> "error", error_message |-> <<>>]

\* CALL sp_insert_patient run to its end: the new tables and the status row
sp_insert_patient(p, p_user) ==
    IF sp_insert_patient_err(p) # <<>>
    THEN [patients |-> patients, audit_log |-> audit_log,
          validation_errors |-> sp_insert_patient_reject(validation_errors, p),
          status |-> "validation_failed", error_message |-> sp_insert_patient_err(p)]
    ELSE IF PatientInsertOk(patients, p)
    THEN [patients |-> patients \cup {PatientRow(p)},
          audit_log |-> sp_insert_patient_log(audit_log, p, p_user),
          validation_errors |-> validation_errors,
          status |-> "inserted", error_message |-> <<>>]
    ELSE [patients |-> patients, audit_log |-> audit_log,
          validation_errors |-> validation_errors,
          status |-> "error", error_message |-> <<>>]

\* The parameters call_sp_insert_patient passes for a dict
PatientParams(patient_data) ==
    [patient_id |-> patient_data.patient_id, name |-> patient_data.name,
     age |-> patient_data.age, arrival_date |-> patient_data.arrival_date,
     departure_date |-> patient_data.departure_date, service |-> patient_data.service,
     satisfaction |-> patient_data.satisfaction]

\* The response of create_patient to the status row
create_patient_outcome(status) ==
    CASE status = "validation_failed" -> "RuleError"
      [] status = "error" -> "StorageFailure"
      [] OTHER -> "created"

Respond(r) == last' = r /\ nreq' = nreq + 1

\* POST /patients
create_patient(body, patient_id) ==
    /\ nreq < MaxRequests
    /\ sp_call = NULL
    /\ IF ~PatientIn(body)
       THEN /\ Respond([op |-> "create_patient", key |-> "", body |-> body,
                        outcome |-> "ShapeError"])
            /\ UNCHANGED <<tables, logs, counters, sp_call, documents, pending>>
       ELSE LET patient_data == [f \in PatientFields \cup {"patient_id"} |->
                                    IF f = "patient_id" THEN Some(patient_id) ELSE body[f]]
                result == sp_insert_patient(PatientParams(patient_data), "api")
            IN /\ patients' = result.patients
               /\ audit_log' = result.audit_log
               /\ validation_errors' = result.validation_errors
               /\ Respond([op |-> "create_patient", key |-> patient_id, body |-> body,
                           outcome |-> create_patient_outcome(result.status)])
               /\ UNCHANGED <<staff, staff_schedule, services_weekly, counters, sp_call, documents, pending>>

\* UPDATE patients SET ... WHERE patient_id = key: the new table
UpdatePatients(tbl, key, assigns) ==
    {IF r.patient_id = key THEN SetColumns(r, assigns) ELSE r : r \in tbl}

\* cur.rowcount of an UPDATE: the rows it changed
RowCount(tbl, tbl2) == Cardinality(tbl \ tbl2)

\* PUT /patients/{patient_id}
update_patient(patient_id, body) ==
    /\ nreq < MaxRequests
    /\ sp_call = NULL
    /\ IF ~PatientIn(body)
       THEN /\ Respond([op |-> "update_patient", key |-> patient_id, body |-> body,
                        outcome |-> "ShapeError"])
            /\ UNCHANGED <<tables, logs, counters, sp_call, documents, pending>>
       ELSE IF \A r \in patients : r.patient_id # patient_id
       THEN /\ Respond([op |-> "update_patient", key |-> patient_id, body |-> body,
                        outcome |-> "NotFound"])
            /\ UNCHANGED <<tables, logs, counters, sp_call, documents, pending>>
       ELSE /\ patients' = UpdatePatients(patients, patient_id, Restrict(body, PatientFields))
            /\ Respond([op |-> "update_patient", key |-> patient_id, body |-> body,
                        outcome |-> "updated"])
            /\ UNCHANGED <<staff, staff_schedule, services_weekly, logs, counters, sp_call, documents, pending>>

\* The SET list built from model_dump() without exclude_unset: every field
patch_patient_updates_all(body) ==
    Restrict(body.data, {f \in PatientFields : f = "name" => body.data.name # NULL})

\* The SET list patch_patient builds: the fields carried, a null name left out
patch_patient_updates(body) ==
    Restrict(body.data, {f \in body.fields_set : f = "name" => body.data.name # NULL})

\* PATCH /patients/{patient_id}
patch_patient(patient_id, body) ==
    /\ nreq < MaxRequests
    /\ sp_call = NULL
    /\ IF ~PatientPatch(body)
       THEN /\ Respond([op |-> "patch_patient", key |-> patient_id, body |-> body,
                        outcome |-> "ShapeError"])
            /\ UNCHANGED <<tables, logs, counters, sp_call, documents, pending>>
       ELSE IF \A r \in patients : r.patient_id # patient_id
       THEN /\ Respond([op |-> "patch_patient", key |-> patient_id, body |-> body,
                        outcome |-> "NotFound"])
            /\ UNCHANGED <<tables, logs, counters, sp_call, documents, pending>>
       ELSE IF DOMAIN patch_patient_updates(body) = {}
       THEN /\ Respond([op |-> "patch_patient", key |-> patient_id, body |-> body,
                        outcome |-> "EmptyPatch"])
            /\ UNCHANGED <<tables, logs, counters, sp_call, documents, pending>>
       ELSE /\ patients' = UpdatePatients(patients, patient_id, patch_patient_updates(body))
            /\ Respond([op |-> "patch_patient", key |-> patient_id, body |-> body,
                        outcome |-> "updated"])
            /\ UNCHANGED <<staff, staff_schedule, services_weekly, logs, counters, sp_call, documents, pending>>

\* PATCH /patients/{patient_id} up to its UPDATE: the body is validated, the
\* SELECT finds the row and the SET list is not empty; the request then waits
\* for its UPDATE while other connections run
patch_patient_check(patient_id, body) ==
    /\ nreq < MaxRequests
    /\ sp_call = NULL
    /\ IF ~PatientPatch(body)
       THEN /\ Respond([op |-> "patch_patient", key |-> patient_id, body |-> body,
                        outcome |-> "ShapeError"])
            /\ UNCHANGED <<tables, logs, counters, sp_call, documents, pending>>
       ELSE IF \A r \in patients : r.patient_id # patient_id
       THEN /\ Respond([op |-> "patch_patient", key |-> patient_id, body |-> body,
                        outcome |-> "NotFound"])
            /\ UNCHANGED <<tables, logs, counters, sp_call, documents, pending>>
       ELSE IF DOMAIN patch_patient_updates(body) = {}
       THEN /\ Respond([op |-> "patch_patient", key |-> patient_id, body |-> body,
                        outcome |-> "EmptyPatch"])
            /\ UNCHANGED <<tables, logs, counters, sp_call, documents, pending>>
       ELSE /\ pending' = pending \cup {[op |-> "patch_patient", key |-> patient_id,
                                         body |-> body, request |-> nreq]}
            /\ nreq' = nreq + 1
            /\ UNCHANGED <<tables, logs, counters, sp_call, documents, last>>

\* The UPDATE of the PATCH with a SET list of every column of the model
patch_patient_write_every_column(request) ==
    /\ request \in pending
    /\ request.op = "patch_patient"
    /\ pending' = pending \ {request}
    /\ patients' = UpdatePatients(patients, request.key,
                                  patch_patient_updates_all(request.body))
    /\ last' = [op |-> "patch_patient", key |-> request.key, body |-> request.body,
                outcome |-> "updated", in_flight |-> Cardinality(pending')]
    /\ UNCHANGED <<staff, staff_schedule, services_weekly, logs, counters, sp_call,
                   documents, nreq>>

\* The UPDATE patients SET ... WHERE patient_id=%s that ends PATCH
\* /patients/{patient_id}, and the response {"updated": count}
patch_patient_write(request) ==
    /\ request \in pending
    /\ request.op = "patch_patient"
    /\ pending' = pending \ {request}
    /\ patients' = UpdatePatients(patients, request.key, patch_patient_updates(request.body))
    /\ last' = [op |-> "patch_patient", key |-> request.key, body |-> request.body,
                outcome |-> "updated", in_flight |-> Cardinality(pending')]
    /\ UNCHANGED <<staff, staff_schedule, services_weekly, logs, counters, sp_call,
                   documents, nreq>>

\* DELETE /patients/{patient_id} that also deletes the audit records of the key
delete_patient_cascade(patient_id) ==
    /\ nreq < MaxRequests
    /\ sp_call = NULL
    /\ IF \A r \in patients : r.patient_id # patient_id
       THEN /\ Respond([op |-> "delete_patient", key |-> patient_id, outcome |-> "NotFound"])
            /\ UNCHANGED <<tables, logs, counters, sp_call, documents, pending>>
       ELSE /\ patients' = {r \in patients : r.patient_id # patient_id}
            /\ audit_log' = SelectSeq(audit_log, LAMBDA rec : rec.row_pk # Some(patient_id))
            /\ Respond([op |-> "delete_patient", key |-> patient_id, outcome |-> "deleted"])
            /\ UNCHANGED <<staff, staff_schedule, services_weekly, validation_errors,
                           counters, sp_call, documents, pending>>

\* DELETE /patients/{patient_id}
delete_patient(patient_id) ==
    /\ nreq < MaxRequests
    /\ sp_call = NULL
    /\ IF \A r \in patients : r.patient_id # patient_id
       THEN /\ Respond([op |-> "delete_patient", key |-> patient_id, outcome |-> "NotFound"])
            /\ UNCHANGED <<tables, logs, counters, sp_call, documents, pending>>
       ELSE /\ patients' = {r \in patients : r.patient_id # patient_id}
            /\ Respond([op |-> "delete_patient", key |-> patient_id, outcome |-> "deleted"])
            /\ UNCHANGED <<staff, staff_schedule, services_weekly, logs, counters, sp_call, documents, pending>>

(***************************************************************************)
(* The stored procedure called directly, and statement by statement        *)
(***************************************************************************)
\* get_connection opens every connection with autocommit=True: each
\* statement of the procedure commits on its own
autocommit == TRUE

\* call_sp_insert_patient(conn, patient, changed_by) with any dict
call_sp_insert_patient(patient, changed_by) ==
    /\ nreq < MaxRequests
    /\ sp_call = NULL
    /\ LET result == sp_insert_patient(PatientParams(patient), changed_by)
       IN /\ patients' = result.patients
          /\ audit_log' = result.audit_log
          /\ validation_errors' = result.validation_errors
          /\ Respond([op |-> "call_sp_insert_patient", key |-> patient.patient_id,
                      body |-> patient, outcome |-> result.status,
                      error_message |-> result.error_message])
          /\ UNCHANGED <<staff, staff_schedule, services_weekly, counters, sp_call, documents, pending>>

\* POST /patients up to and including the first INSERT of the procedure
create_patient_begin(body, patient_id) ==
    /\ nreq < MaxRequests
    /\ sp_call = NULL
    /\ LET patient_data == [f \in PatientFields \cup {"patient_id"} |->
                               IF f = "patient_id" THEN Some(patient_id) ELSE body[f]]
           p == PatientParams(patient_data)
       IN IF ~PatientIn(body)
          THEN /\ Respond([op |-> "create_patient", key |-> "", body |-> body,
                           outcome |-> "ShapeError"])
               /\ UNCHANGED <<tables, logs, counters, sp_call, documents, pending>>
          ELSE IF sp_insert_patient_err(p) # <<>>
          THEN /\ validation_errors' = sp_insert_patient_reject(validation_errors, p)
               /\ Respond([op |-> "create_patient", key |-> patient_id, body |-> body,
                           outcome |-> "RuleError"])
               /\ UNCHANGED <<tables, audit_log, counters, sp_call, documents, pending>>
          ELSE IF PatientInsertOk(patients, p)
          THEN /\ patients' = patients \cup {PatientRow(p)}
               /\ sp_call' = Some([p |-> p, p_user |-> "api", body |-> body])
               /\ UNCHANGED <<staff, staff_schedule, services_weekly, logs, counters,
                              last, nreq, documents, pending>>
          ELSE /\ Respond([op |-> "create_patient", key |-> patient_id, body |-> body,
                           outcome |-> "StorageFailure"])
               /\ UNCHANGED <<tables, logs, counters, sp_call, documents, pending>>

\* The CALL sp_log_change and the status row that end the procedure
create_patient_finish ==
    /\ sp_call # NULL
    /\ audit_log' = sp_insert_patient_log(audit_log, sp_call[1].p, sp_call[1].p_user)
    /\ sp_call' = NULL
    /\ Respond([op |-> "create_patient", key |-> sp_call[1].p.patient_id[1],
                body |-> sp_call[1].body, outcome |-> "created"])
    /\ UNCHANGED <<tables, validation_errors, counters, documents, pending>>

\* The server or the connection is lost between the two statements: the
\* INSERT INTO patients stays when it was committed on its own
create_patient_crash ==
    /\ sp_call # NULL
    /\ patients' = IF autocommit THEN patients
                   ELSE patients \ {PatientRow(sp_call[1].p)}
    /\ sp_call' = NULL
    /\ Respond([op |-> "create_patient", key |-> sp_call[1].p.patient_id[1],
                body |-> sp_call[1].body, outcome |-> "StorageFailure"])
    /\ UNCHANGED <<staff, staff_schedule, services_weekly, logs, counters, documents, pending>>

(***************************************************************************)
(* Staff                                                                   *)
(***************************************************************************)
StaffFields == {"staff_name", "role", "service"}

\* The values of the enums StaffRole and ServiceType
StaffRole == {"doctor", "nurse", "nursing_assistant", "ADMIN"}
ServiceType == {"emergency", "surgery", "general_medicine", "ICU", "FRONT DESK"}

\* The enum member a validated field holds, and its .value
EnumMember(cls, v) == [enum |-> cls, value |-> v]
EnumValue(member) == IF member = NULL THEN NULL ELSE Some(member[1].value)

\* StaffIn with role and service declared as Optional[str]
StaffIn_plain_strings(body) ==
    /\ body.staff_name # NULL
    /\ Len(body.staff_name[1]) >= 1 /\ Len(body.staff_name[1]) <= MaxNameLen

\* StaffIn: TRUE when the request body passes the schema
StaffIn(body) ==
    /\ body.staff_name # NULL
    /\ Len(body.staff_name[1]) >= 1 /\ Len(body.staff_name[1]) <= MaxNameLen
    /\ body.role # NULL => body.role[1] \in StaffRole
    /\ body.service # NULL => body.service[1] \in ServiceType

\* StaffPatch: constraints run on the fields carried
StaffPatch(body) ==
    /\ ("staff_name" \in body.fields_set /\ body.data.staff_name # NULL) =>
          Len(body.data.staff_name[1]) >= 1 /\ Len(body.data.staff_name[1]) <= MaxNameLen
    /\ ("role" \in body.fields_set /\ body.data.role # NULL) => body.data.role[1] \in StaffRole
    /\ ("service" \in body.fields_set /\ body.data.service # NULL) =>
          body.data.service[1] \in ServiceType

\* The validated model: role and service hold enum members
StaffModel(data) ==
    [staff_name |-> data.staff_name,
     role |-> IF data.role = NULL THEN NULL ELSE Some(EnumMember("StaffRole", data.role[1])),
     service |-> IF data.service = NULL THEN NULL
                 ELSE Some(EnumMember("ServiceType", data.service[1]))]

\* The JSON-like text trg_staff_update_log builds of a staff row
StaffValues(r) ==
    [staff_id |-> r.staff_id, staff_name |-> IfNullEmpty(r.staff_name),
     role |-> IfNullEmpty(r.role), service |-> IfNullEmpty(r.service)]

\* The user the trigger records: USER() of the connection
DbUser == "db_user"

\* trg_staff_update_log building both texts from NEW
trg_staff_update_log_new_only(log, old, new) ==
    sp_log_change(log, "staff", Some(new.staff_id), "UPDATE",
                  Some(StaffValues(new)), Some(StaffValues(new)), DbUser)

\* trg_staff_update_log, AFTER UPDATE ON staff FOR EACH ROW
trg_staff_update_log(log, old, new) ==
    sp_log_change(log, "staff", Some(new.staff_id), "UPDATE",
                  Some(StaffValues(old)), Some(StaffValues(new)), DbUser)

\* UPDATE staff SET ... WHERE staff_id = key: the new table, and the log
\* after the trigger ran for the row matched (staff_id is the primary key)
UpdateStaff(tbl, log, key, assigns) ==
    LET matched == {r \in tbl : r.staff_id = key}
    IN [staff |-> {IF r.staff_id = key THEN SetColumns(r, assigns) ELSE r : r \in tbl},
        audit_log |-> IF matched = {} THEN log
                      ELSE LET old == CHOOSE r \in matched : TRUE
                           IN trg_staff_update_log(log, old, SetColumns(old, assigns))]

\* POST /staff
create_staff(body, staff_id) ==
    /\ nreq < MaxRequests
    /\ sp_call = NULL
    /\ IF ~StaffIn(body)
       THEN /\ Respond([op |-> "create_staff", key |-> "", body |-> body,
                        outcome |-> "ShapeError"])
            /\ UNCHANGED <<tables, logs, counters, sp_call, documents, pending>>
       ELSE IF \E r \in staff : r.staff_id = staff_id
       THEN /\ Respond([op |-> "create_staff", key |-> staff_id, body |-> body,
                        outcome |-> "StorageFailure"])
            /\ UNCHANGED <<tables, logs, counters, sp_call, documents, pending>>
       ELSE LET payload == StaffModel(body)
                role_value == EnumValue(payload.role)
                service_value == EnumValue(payload.service)
            IN /\ staff' = staff \cup {[staff_id |-> staff_id, staff_name |-> payload.staff_name,
                                        role |-> role_value, service |-> service_value]}
               /\ Respond([op |-> "create_staff", key |-> staff_id, body |-> body,
                           outcome |-> "created"])
               /\ UNCHANGED <<patients, staff_schedule, services_weekly, logs, counters, sp_call, documents, pending>>

\* PUT /staff/{staff_id}
update_staff(staff_id, body) ==
    /\ nreq < MaxRequests
    /\ sp_call = NULL
    /\ IF ~StaffIn(body)
       THEN /\ Respond([op |-> "update_staff", key |-> staff_id, body |-> body,
                        outcome |-> "ShapeError"])
            /\ UNCHANGED <<tables, logs, counters, sp_call, documents, pending>>
       ELSE LET payload == StaffModel(body)
                u == UpdateStaff(staff, audit_log, staff_id,
                                 [staff_name |-> payload.staff_name,
                                  role |-> EnumValue(payload.role),
                                  service |-> EnumValue(payload.service)])
            IN /\ staff' = u.staff
               /\ audit_log' = u.audit_log
               /\ Respond([op |-> "update_staff", key |-> staff_id, body |-> body,
                           outcome |-> "updated", count |-> RowCount(staff, u.staff)])
               /\ UNCHANGED <<patients, staff_schedule, services_weekly, validation_errors,
                              counters, sp_call, documents, pending>>

\* The SET list patch_staff builds: the fields carried that are not null,
\* enum members turned into their values
patch_staff_updates(body) ==
    LET payload == StaffModel(body.data)
        kept == {f \in body.fields_set : body.data[f] # NULL}
    IN [f \in kept |-> IF f = "staff_name" THEN payload.staff_name ELSE EnumValue(payload[f])]

\* PATCH /staff/{staff_id}
patch_staff(staff_id, body) ==
    /\ nreq < MaxRequests
    /\ sp_call = NULL
    /\ IF ~StaffPatch(body)
       THEN /\ Respond([op |-> "patch_staff", key |-> staff_id, body |-> body,
                        outcome |-> "ShapeError"])
            /\ UNCHANGED <<tables, logs, counters, sp_call, documents, pending>>
       ELSE IF \A r \in staff : r.staff_id # staff_id
       THEN /\ Respond([op |-> "patch_staff", key |-> staff_id, body |-> body,
                        outcome |-> "NotFound"])
            /\ UNCHANGED <<tables, logs, counters, sp_call, documents, pending>>
       ELSE IF DOMAIN patch_staff_updates(body) = {}
       THEN /\ Respond([op |-> "patch_staff", key |-> staff_id, body |-> body,
                        outcome |-> "EmptyPatch"])
            /\ UNCHANGED <<tables, logs, counters, sp_call, documents, pending>>
       ELSE LET u == UpdateStaff(staff, audit_log, staff_id, patch_staff_updates(body))
            IN /\ staff' = u.staff
               /\ audit_log' = u.audit_log
               /\ Respond([op |-> "patch_staff", key |-> staff_id, body |-> body,
                           outcome |-> "updated", count |-> RowCount(staff, u.staff)])
               /\ UNCHANGED <<patients, staff_schedule, services_weekly, validation_errors,
                              counters, sp_call, documents, pending>>

\* staff_schedule after a DELETE FROM staff of the key: ON DELETE SET NULL
OnDeleteSetNull(tbl, key) ==
    {IF r.staff_id = Some(key) THEN [r EXCEPT !.staff_id = NULL] ELSE r : r \in tbl}

\* DELETE /staff/{staff_id} with an AFTER DELETE trigger that logs the row
delete_staff_logged(staff_id) ==
    /\ nreq < MaxRequests
    /\ sp_call = NULL
    /\ staff' = {r \in staff : r.staff_id # staff_id}
    /\ staff_schedule' = IF \E r \in staff : r.staff_id = staff_id
                         THEN OnDeleteSetNull(staff_schedule, staff_id)
                         ELSE staff_schedule
    /\ audit_log' = IF \E r \in staff : r.staff_id = staff_id
                    THEN sp_log_change(audit_log, "staff", Some(staff_id), "DELETE",
                                       Some(StaffValues(CHOOSE r \in staff :
                                                           r.staff_id = staff_id)),
                                       NULL, DbUser)
                    ELSE audit_log
    /\ Respond([op |-> "delete_staff", key |-> staff_id, outcome |-> "deleted",
                count |-> Cardinality({r \in staff : r.staff_id = staff_id})])
    /\ UNCHANGED <<patients, services_weekly, validation_errors, counters, sp_call,
                   documents, pending>>

\* DELETE /staff/{staff_id}
delete_staff(staff_id) ==
    /\ nreq < MaxRequests
    /\ sp_call = NULL
    /\ staff' = {r \in staff : r.staff_id # staff_id}
    /\ staff_schedule' = IF \E r \in staff : r.staff_id = staff_id
                         THEN OnDeleteSetNull(staff_schedule, staff_id)
                         ELSE staff_schedule
    /\ Respond([op |-> "delete_staff", key |-> staff_id, outcome |-> "deleted",
                count |-> Cardinality({r \in staff : r.staff_id = staff_id})])
    /\ UNCHANGED <<patients, services_weekly, logs, counters, sp_call, documents, pending>>

(***************************************************************************)
(* Staff schedule                                                          *)
(***************************************************************************)
ScheduleFields == {"day_or_shift", "staff_id", "staff_name", "role", "service", "on_shift"}

\* StaffScheduleIn: TRUE when the request body passes the schema
StaffScheduleIn(body) ==
    /\ body.day_or_shift # NULL
    /\ Len(body.day_or_shift[1]) >= 1 /\ Len(body.day_or_shift[1]) <= MaxLabelLen
    /\ body.staff_id # NULL => Len(body.staff_id[1]) <= MaxLabelLen
    /\ body.staff_name # NULL => Len(body.staff_name[1]) <= MaxNameLen
    /\ body.role # NULL => Len(body.role[1]) <= MaxLabelLen
    /\ body.service # NULL => Len(body.service[1]) <= MaxLabelLen

\* StaffSchedulePatch: constraints run on the fields carried
StaffSchedulePatch(body) ==
    /\ ("day_or_shift" \in body.fields_set /\ body.data.day_or_shift # NULL) =>
          Len(body.data.day_or_shift[1]) >= 1 /\ Len(body.data.day_or_shift[1]) <= MaxLabelLen
    /\ ("staff_id" \in body.fields_set /\ body.data.staff_id # NULL) =>
          Len(body.data.staff_id[1]) <= MaxLabelLen
    /\ ("staff_name" \in body.fields_set /\ body.data.staff_name # NULL) =>
          Len(body.data.staff_name[1]) <= MaxNameLen
    /\ ("role" \in body.fields_set /\ body.data.role # NULL) =>
          Len(body.data.role[1]) <= MaxLabelLen
    /\ ("service" \in body.fields_set /\ body.data.service # NULL) =>
          Len(body.data.service[1]) <= MaxLabelLen

\* 1 if payload.on_shift else 0
OnShiftBit(v) == IF v # NULL /\ v[1] THEN Some(1) ELSE Some(0)

\* The column values create_staff_schedule and update_staff_schedule pass
ScheduleColumns(body) ==
    [day_or_shift |-> body.day_or_shift, staff_id |-> body.staff_id,
     staff_name |-> body.staff_name, role |-> body.role, service |-> body.service,
     on_shift |-> OnShiftBit(body.on_shift)]

\* staff_schedule declared without the FOREIGN KEY: every staff_id is accepted
ScheduleForeignKeyOk_undeclared(row) == row.staff_id = row.staff_id

\* FOREIGN KEY (staff_id) REFERENCES staff(staff_id)
ScheduleForeignKeyOk(row) ==
    row.staff_id = NULL \/ \E r \in staff : r.staff_id = row.staff_id[1]

\* POST /staff-schedule; a failed INSERT still uses up its AUTO_INCREMENT value
create_staff_schedule(body) ==
    /\ nreq < MaxRequests
    /\ sp_call = NULL
    /\ IF ~StaffScheduleIn(body)
       THEN /\ Respond([op |-> "create_staff_schedule", body |-> body,
                        outcome |-> "ShapeError"])
            /\ UNCHANGED <<tables, logs, counters, sp_call, documents, pending>>
       ELSE LET row == [f \in ScheduleFields \cup {"id"} |->
                           IF f = "id" THEN schedule_auto_inc ELSE ScheduleColumns(body)[f]]
            IN /\ schedule_auto_inc' = schedule_auto_inc + 1
               /\ IF ScheduleForeignKeyOk(row)
                  THEN /\ staff_schedule' = staff_schedule \cup {row}
                       /\ Respond([op |-> "create_staff_schedule", body |-> body,
                                   outcome |-> "created",
                                   row |-> CHOOSE r \in staff_schedule' :
                                              \A q \in staff_schedule' : q.id <= r.id])
                  ELSE /\ UNCHANGED staff_schedule
                       /\ Respond([op |-> "create_staff_schedule", body |-> body,
                                   outcome |-> "StorageFailure"])
               /\ UNCHANGED <<patients, staff, services_weekly, logs, weekly_auto_inc, sp_call, documents, pending>>

\* POST /staff-schedule up to and including its INSERT, run on the request's
\* own connection with autocommit: the row is visible to every other request
create_staff_schedule_insert(body) ==
    /\ nreq < MaxRequests
    /\ sp_call = NULL
    /\ IF ~StaffScheduleIn(body)
       THEN /\ Respond([op |-> "create_staff_schedule", body |-> body,
                        outcome |-> "ShapeError"])
            /\ UNCHANGED <<tables, logs, counters, sp_call, documents, pending>>
       ELSE LET row == [f \in ScheduleFields \cup {"id"} |->
                           IF f = "id" THEN schedule_auto_inc ELSE ScheduleColumns(body)[f]]
            IN /\ schedule_auto_inc' = schedule_auto_inc + 1
               /\ IF ScheduleForeignKeyOk(row)
                  THEN /\ staff_schedule' = staff_schedule \cup {row}
                       /\ pending' = pending \cup {[inserted |-> row.id, body |-> body]}
                       /\ nreq' = nreq + 1
                       /\ UNCHANGED last
                  ELSE /\ Respond([op |-> "create_staff_schedule", body |-> body,
                                   outcome |-> "StorageFailure"])
                       /\ UNCHANGED <<staff_schedule, pending>>
               /\ UNCHANGED <<patients, staff, services_weekly, logs, weekly_auto_inc, sp_call, documents>>

\* The SELECT * FROM staff_schedule ORDER BY id DESC LIMIT 1 that ends POST
\* /staff-schedule, and the response: no row fails the response model
create_staff_schedule_select(request) ==
    /\ request \in pending
    /\ pending' = pending \ {request}
    /\ last' = IF staff_schedule = {}
               THEN [op |-> "create_staff_schedule", body |-> request.body,
                     outcome |-> "StorageFailure", inserted |-> request.inserted]
               ELSE [op |-> "create_staff_schedule", body |-> request.body,
                     outcome |-> "created", inserted |-> request.inserted,
                     row |-> CHOOSE r \in staff_schedule :
                                \A q \in staff_schedule : q.id <= r.id]
    /\ UNCHANGED <<tables, logs, counters, sp_call, documents, nreq>>

\* UPDATE staff_schedule SET ... WHERE id = key: the new table
UpdateSchedule(tbl, id, assigns) ==
    {IF r.id = id THEN SetColumns(r, assigns) ELSE r : r \in tbl}

\* PUT /staff-schedule/{id}
update_staff_schedule(id, body) ==
    /\ nreq < MaxRequests
    /\ sp_call = NULL
    /\ IF ~StaffScheduleIn(body)
       THEN /\ Respond([op |-> "update_staff_schedule", key |-> id, body |-> body,
                        outcome |-> "ShapeError"])
            /\ UNCHANGED <<tables, logs, counters, sp_call, documents, pending>>
       ELSE LET new == UpdateSchedule(staff_schedule, id, ScheduleColumns(body))
            IN IF \A r \in new : ScheduleForeignKeyOk(r)
               THEN /\ staff_schedule' = new
                    /\ Respond([op |-> "update_staff_schedule", key |-> id, body |-> body,
                                outcome |-> "updated",
                                count |-> RowCount(staff_schedule, new)])
                    /\ UNCHANGED <<patients, staff, services_weekly, logs, counters, sp_call, documents, pending>>
               ELSE /\ Respond([op |-> "update_staff_schedule", key |-> id, body |-> body,
                                outcome |-> "StorageFailure"])
                    /\ UNCHANGED <<tables, logs, counters, sp_call, documents, pending>>

\* The SET list patch_staff_schedule builds: the fields carried, a null
\* day_or_shift or on_shift left out
patch_staff_schedule_updates(body) ==
    LET kept == {f \in body.fields_set :
                    f \in {"day_or_shift", "on_shift"} => body.data[f] # NULL}
    IN [f \in kept |-> IF f = "on_shift" THEN OnShiftBit(body.data.on_shift)
                       ELSE body.data[f]]

\* PATCH /staff-schedule/{id}
patch_staff_schedule(id, body) ==
    /\ nreq < MaxRequests
    /\ sp_call = NULL
    /\ IF ~StaffSchedulePatch(body)
       THEN /\ Respond([op |-> "patch_staff_schedule", key |-> id, body |-> body,
                        outcome |-> "ShapeError"])
            /\ UNCHANGED <<tables, logs, counters, sp_call, documents, pending>>
       ELSE IF \A r \in staff_schedule : r.id # id
       THEN /\ Respond([op |-> "patch_staff_schedule", key |-> id, body |-> body,
                        outcome |-> "NotFound"])
            /\ UNCHANGED <<tables, logs, counters, sp_call, documents, pending>>
       ELSE IF DOMAIN patch_staff_schedule_updates(body) = {}
       THEN /\ Respond([op |-> "patch_staff_schedule", key |-> id, body |-> body,
                        outcome |-> "EmptyPatch"])
            /\ UNCHANGED <<tables, logs, counters, sp_call, documents, pending>>
       ELSE LET new == UpdateSchedule(staff_schedule, id, patch_staff_schedule_updates(body))
            IN IF \A r \in new : ScheduleForeignKeyOk(r)
               THEN /\ staff_schedule' = new
                    /\ Respond([op |-> "patch_staff_schedule", key |-> id, body |-> body,
                                outcome |-> "updated",
                                count |-> RowCount(staff_schedule, new)])
                    /\ UNCHANGED <<patients, staff, services_weekly, logs, counters, sp_call, documents, pending>>
               ELSE /\ Respond([op |-> "patch_staff_schedule", key |-> id, body |-> body,
                                outcome |-> "StorageFailure"])
                    /\ UNCHANGED <<tables, logs, counters, sp_call, documents, pending>>

\* DELETE /staff-schedule/{id}
delete_staff_schedule(id) ==
    /\ nreq < MaxRequests
    /\ sp_call = NULL
    /\ staff_schedule' = {r \in staff_schedule : r.id # id}
    /\ Respond([op |-> "delete_staff_schedule", key |-> id, outcome |-> "deleted",
                count |-> Cardinality({r \in staff_schedule : r.id = id})])
    /\ UNCHANGED <<patients, staff, services_weekly, logs, counters, sp_call, documents, pending>>

(***************************************************************************)
(* Weekly service metrics                                                  *)
(***************************************************************************)
WeeklyFields ==
    {"week", "month", "service", "available_beds", "patients_request", "patients_admitted",
     "patients_refused", "patient_satisfaction", "staff_morale", "event"}
WeeklyCounts == {"available_beds", "patients_request", "patients_admitted", "patients_refused"}
WeeklyScores == {"patient_satisfaction", "staff_morale"}

MinWeek == 1
MaxWeek == 53
MinMonth == 1
MaxMonth == 12

\* The Field constraints ServiceWeeklyIn and ServiceWeeklyPatch share, on the
\* fields in `carried` that are not null
WeeklyFieldsOk(data, carried) ==
    /\ ("week" \in carried /\ data.week # NULL) =>
          data.week[1] >= MinWeek /\ data.week[1] <= MaxWeek
    /\ ("month" \in carried /\ data.month # NULL) =>
          data.month[1] >= MinMonth /\ data.month[1] <= MaxMonth
    /\ ("service" \in carried /\ data.service # NULL) =>
          Len(data.service[1]) >= 1 /\ Len(data.service[1]) <= MaxLabelLen
    /\ \A f \in WeeklyCounts \cap carried : data[f] # NULL => data[f][1] >= 0
    /\ \A f \in WeeklyScores \cap carried :
          data[f] # NULL => data[f][1] >= MinScore /\ data[f][1] <= MaxScore
    /\ ("event" \in carried /\ data.event # NULL) => Len(data.event[1]) <= MaxNameLen

\* ServiceWeeklyIn: week, month and service are required
ServiceWeeklyIn(body) ==
    /\ body.week # NULL /\ body.month # NULL /\ body.service # NULL
    /\ WeeklyFieldsOk(body, WeeklyFields)

\* ServiceWeeklyPatch
ServiceWeeklyPatch(body) == WeeklyFieldsOk(body.data, body.fields_set)

\* UNIQUE KEY uix_week_month_service (week, month, service)
WeeklyUniqueOk(tbl) ==
    \A r, q \in tbl :
        (r.week = q.week /\ r.month = q.month /\ r.service = q.service) => r.id = q.id

\* POST /services-weekly; a failed INSERT still uses up its AUTO_INCREMENT value
create_service_weekly(body) ==
    /\ nreq < MaxRequests
    /\ sp_call = NULL
    /\ IF ~ServiceWeeklyIn(body)
       THEN /\ Respond([op |-> "create_service_weekly", body |-> body,
                        outcome |-> "ShapeError"])
            /\ UNCHANGED <<tables, logs, counters, sp_call, documents, pending>>
       ELSE LET row == [f \in WeeklyFields \cup {"id"} |->
                           IF f = "id" THEN weekly_auto_inc ELSE body[f]]
            IN /\ weekly_auto_inc' = weekly_auto_inc + 1
               /\ IF WeeklyUniqueOk(services_weekly \cup {row})
                  THEN /\ services_weekly' = services_weekly \cup {row}
                       /\ Respond([op |-> "create_service_weekly", body |-> body,
                                   outcome |-> "created",
                                   row |-> CHOOSE r \in services_weekly' :
                                              /\ r.week = body.week
                                              /\ r.month = body.month
                                              /\ r.service = body.service])
                  ELSE /\ UNCHANGED services_weekly
                       /\ Respond([op |-> "create_service_weekly", body |-> body,
                                   outcome |-> "StorageFailure"])
               /\ UNCHANGED <<patients, staff, staff_schedule, logs, schedule_auto_inc, sp_call, documents, pending>>

\* UPDATE services_weekly SET ... WHERE id = key: the new table
UpdateWeekly(tbl, id, assigns) ==
    {IF r.id = id THEN SetColumns(r, assigns) ELSE r : r \in tbl}

\* PUT /services-weekly/{id}
update_service_weekly(id, body) ==
    /\ nreq < MaxRequests
    /\ sp_call = NULL
    /\ IF ~ServiceWeeklyIn(body)
       THEN /\ Respond([op |-> "update_service_weekly", key |-> id, body |-> body,
                        outcome |-> "ShapeError"])
            /\ UNCHANGED <<tables, logs, counters, sp_call, documents, pending>>
       ELSE LET new == UpdateWeekly(services_weekly, id, Restrict(body, WeeklyFields))
            IN IF WeeklyUniqueOk(new)
               THEN /\ services_weekly' = new
                    /\ Respond([op |-> "update_service_weekly", key |-> id, body |-> body,
                                outcome |-> "updated",
                                count |-> RowCount(services_weekly, new)])
                    /\ UNCHANGED <<patients, staff, staff_schedule, logs, counters, sp_call, documents, pending>>
               ELSE /\ Respond([op |-> "update_service_weekly", key |-> id, body |-> body,
                                outcome |-> "StorageFailure"])
                    /\ UNCHANGED <<tables, logs, counters, sp_call, documents, pending>>

\* The SET list patch_service_weekly builds: the fields carried, a null week,
\* month or service left out
patch_service_weekly_updates(body) ==
    Restrict(body.data, {f \in body.fields_set :
                            f \in {"week", "month", "service"} => body.data[f] # NULL})

\* PATCH /services-weekly/{id}
patch_service_weekly(id, body) ==
    /\ nreq < MaxRequests
    /\ sp_call = NULL
    /\ IF ~ServiceWeeklyPatch(body)
       THEN /\ Respond([op |-> "patch_service_weekly", key |-> id, body |-> body,
                        outcome |-> "ShapeError"])
            /\ UNCHANGED <<tables, logs, counters, sp_call, documents, pending>>
       ELSE IF \A r \in services_weekly : r.id # id
       THEN /\ Respond([op |-> "patch_service_weekly", key |-> id, body |-> body,
                        outcome |-> "NotFound"])
            /\ UNCHANGED <<tables, logs, counters, sp_call, documents, pending>>
       ELSE IF DOMAIN patch_service_weekly_updates(body) = {}
       THEN /\ Respond([op |-> "patch_service_weekly", key |-> id, body |-> body,
                        outcome |-> "EmptyPatch"])
            /\ UNCHANGED <<tables, logs, counters, sp_call, documents, pending>>
       ELSE LET new == UpdateWeekly(services_weekly, id, patch_service_weekly_updates(body))
            IN IF WeeklyUniqueOk(new)
               THEN /\ services_weekly' = new
                    /\ Respond([op |-> "patch_service_weekly", key |-> id, body |-> body,
                                outcome |-> "updated",
                                count |-> RowCount(services_weekly, new)])
                    /\ UNCHANGED <<patients, staff, staff_schedule, logs, counters, sp_call, documents, pending>>
               ELSE /\ Respond([op |-> "patch_service_weekly", key |-> id, body |-> body,
                                outcome |-> "StorageFailure"])
                    /\ UNCHANGED <<tables, logs, counters, sp_call, documents, pending>>

\* DELETE /services-weekly/{id}
delete_service_weekly(id) ==
    /\ nreq < MaxRequests
    /\ sp_call = NULL
    /\ services_weekly' = {r \in services_weekly : r.id # id}
    /\ Respond([op |-> "delete_service_weekly", key |-> id, outcome |-> "deleted",
                count |-> Cardinality({r \in services_weekly : r.id = id})])
    /\ UNCHANGED <<patients, staff, staff_schedule, logs, counters, sp_call, documents, pending>>

(***************************************************************************)
(* The document store: collection patients                                 *)
(***************************************************************************)
\* _date_to_iso: the ISO string of a date, None for None
date_to_iso(d) == IF d = NULL THEN NULL ELSE Some([iso |-> d[1]])

\* payload.model_dump() with the dates as ISO strings and the key
PatientDoc(body, patient_id) ==
    [patient_id |-> Some(patient_id), name |-> body.name, age |-> body.age,
     arrival_date |-> date_to_iso(body.arrival_date),
     departure_date |-> date_to_iso(body.departure_date),
     service |-> body.service, satisfaction |-> body.satisfaction]

\* patients_schema as _bson_to_jsonschema turns it into a JSON schema: the
\* required keys are present and only departure_date may be null
patients_schema(doc) ==
    /\ {"patient_id", "name", "age", "arrival_date", "service", "satisfaction"}
          \subseteq DOMAIN doc
    /\ \A f \in DOMAIN doc : f # "departure_date" => doc[f] # NULL

\* _validate_against_task_schema("patients", doc): TRUE when no 400 is raised
validate_against_task_schema(doc) == patients_schema(doc)

\* The position of the first document a filter {"patient_id": key} matches, 0 if none
find_one(coll, key) ==
    IF \E i \in DOMAIN coll : coll[i].patient_id = Some(key)
    THEN CHOOSE i \in DOMAIN coll :
            /\ coll[i].patient_id = Some(key)
            /\ \A j \in DOMAIN coll : coll[j].patient_id = Some(key) => i <= j
    ELSE 0

\* update_one(filter, {"$set": fields}) on the document at position i
update_one(coll, i, fields) ==
    [coll EXCEPT ![i] = [f \in DOMAIN coll[i] \cup DOMAIN fields |->
                            IF f \in DOMAIN fields THEN fields[f] ELSE coll[i][f]]]

\* delete_one(filter) of the document at position i
delete_one(coll, i) ==
    [j \in 1 .. (Len(coll) - 1) |-> IF j < i THEN coll[j] ELSE coll[j + 1]]

\* POST /patients of the document API: no unique index guards patient_id
mongo_create_patient(body, patient_id) ==
    /\ nreq < MaxRequests
    /\ sp_call = NULL
    /\ IF ~PatientIn(body)
       THEN /\ Respond([op |-> "mongo.create_patient", key |-> "", body |-> body,
                        outcome |-> "ShapeError"])
            /\ UNCHANGED <<tables, logs, counters, sp_call, documents, pending>>
       ELSE IF ~validate_against_task_schema(PatientDoc(body, patient_id))
       THEN /\ Respond([op |-> "mongo.create_patient", key |-> patient_id, body |-> body,
                        outcome |-> "SchemaError"])
            /\ UNCHANGED <<tables, logs, counters, sp_call, documents, pending>>
       ELSE /\ patients_coll' = Append(patients_coll, PatientDoc(body, patient_id))
            /\ Respond([op |-> "mongo.create_patient", key |-> patient_id, body |-> body,
                        outcome |-> "created"])
            /\ UNCHANGED <<tables, logs, counters, sp_call, staff_coll, services_weekly_coll, staff_schedule_coll, pending>>

\* PUT /patients/{patient_id} of the document API
mongo_update_patient(patient_id, body) ==
    /\ nreq < MaxRequests
    /\ sp_call = NULL
    /\ IF ~PatientIn(body)
       THEN /\ Respond([op |-> "mongo.update_patient", key |-> patient_id, body |-> body,
                        outcome |-> "ShapeError"])
            /\ UNCHANGED <<tables, logs, counters, sp_call, documents, pending>>
       ELSE IF ~validate_against_task_schema(PatientDoc(body, patient_id))
       THEN /\ Respond([op |-> "mongo.update_patient", key |-> patient_id, body |-> body,
                        outcome |-> "SchemaError"])
            /\ UNCHANGED <<tables, logs, counters, sp_call, documents, pending>>
       ELSE IF find_one(patients_coll, patient_id) = 0
       THEN /\ Respond([op |-> "mongo.update_patient", key |-> patient_id, body |-> body,
                        outcome |-> "NotFound"])
            /\ UNCHANGED <<tables, logs, counters, sp_call, documents, pending>>
       ELSE /\ patients_coll' = update_one(patients_coll, find_one(patients_coll, patient_id),
                                           PatientDoc(body, patient_id))
            /\ Respond([op |-> "mongo.update_patient", key |-> patient_id, body |-> body,
                        outcome |-> "updated"])
            /\ UNCHANGED <<tables, logs, counters, sp_call, staff_coll, services_weekly_coll, staff_schedule_coll, pending>>

\* payload.model_dump(exclude_unset=True) with the dates carried as ISO strings
mongo_patch_patient_payload(body) ==
    [f \in body.fields_set |->
        IF f \in {"arrival_date", "departure_date"} THEN date_to_iso(body.data[f])
        ELSE body.data[f]]

\* PATCH /patients/{patient_id} of the document API
mongo_patch_patient(patient_id, body) ==
    /\ nreq < MaxRequests
    /\ sp_call = NULL
    /\ LET i == find_one(patients_coll, patient_id)
           payload_dict == mongo_patch_patient_payload(body)
       IN IF ~PatientPatch(body)
          THEN /\ Respond([op |-> "mongo.patch_patient", key |-> patient_id, body |-> body,
                           outcome |-> "ShapeError"])
               /\ UNCHANGED <<tables, logs, counters, sp_call, documents, pending>>
          ELSE IF i = 0
          THEN /\ Respond([op |-> "mongo.patch_patient", key |-> patient_id, body |-> body,
                           outcome |-> "NotFound"])
               /\ UNCHANGED <<tables, logs, counters, sp_call, documents, pending>>
          ELSE IF DOMAIN payload_dict = {}
          THEN /\ Respond([op |-> "mongo.patch_patient", key |-> patient_id, body |-> body,
                           outcome |-> "EmptyPatch"])
               /\ UNCHANGED <<tables, logs, counters, sp_call, documents, pending>>
          ELSE IF ~validate_against_task_schema(update_one(patients_coll, i, payload_dict)[i])
          THEN /\ Respond([op |-> "mongo.patch_patient", key |-> patient_id, body |-> body,
                           outcome |-> "SchemaError"])
               /\ UNCHANGED <<tables, logs, counters, sp_call, documents, pending>>
          ELSE /\ patients_coll' = update_one(patients_coll, i, payload_dict)
               /\ Respond([op |-> "mongo.patch_patient", key |-> patient_id, body |-> body,
                           outcome |-> "updated", pos |-> i])
               /\ UNCHANGED <<tables, logs, counters, sp_call, staff_coll, services_weekly_coll, staff_schedule_coll, pending>>

\* PATCH /patients/{patient_id} of the document API up to its update_one:
\* find_one found the document and the merged document passed the schema
mongo_patch_patient_find(patient_id, body) ==
    /\ nreq < MaxRequests
    /\ sp_call = NULL
    /\ LET i == find_one(patients_coll, patient_id)
           payload_dict == mongo_patch_patient_payload(body)
       IN IF ~PatientPatch(body)
          THEN /\ Respond([op |-> "mongo.patch_patient", key |-> patient_id, body |-> body,
                           outcome |-> "ShapeError"])
               /\ UNCHANGED <<tables, logs, counters, sp_call, documents, pending>>
          ELSE IF i = 0
          THEN /\ Respond([op |-> "mongo.patch_patient", key |-> patient_id, body |-> body,
                           outcome |-> "NotFound"])
               /\ UNCHANGED <<tables, logs, counters, sp_call, documents, pending>>
          ELSE IF DOMAIN payload_dict = {}
          THEN /\ Respond([op |-> "mongo.patch_patient", key |-> patient_id, body |-> body,
                           outcome |-> "EmptyPatch"])
               /\ UNCHANGED <<tables, logs, counters, sp_call, documents, pending>>
          ELSE IF ~validate_against_task_schema(update_one(patients_coll, i, payload_dict)[i])
          THEN /\ Respond([op |-> "mongo.patch_patient", key |-> patient_id, body |-> body,
                           outcome |-> "SchemaError"])
               /\ UNCHANGED <<tables, logs, counters, sp_call, documents, pending>>
          ELSE /\ pending' = pending \cup {[op |-> "mongo.patch_patient", key |-> patient_id,
                                            body |-> body, request |-> nreq]}
               /\ nreq' = nreq + 1
               /\ UNCHANGED <<tables, logs, counters, sp_call, documents, last>>

\* The update_one({"patient_id": patient_id}, {"$set": payload_dict}) that ends
\* the PATCH, and the response {"updated": modified_count}
mongo_patch_patient_update(request) ==
    /\ request \in pending
    /\ request.op = "mongo.patch_patient"
    /\ pending' = pending \ {request}
    /\ LET i == find_one(patients_coll, request.key)
       IN /\ patients_coll' = IF i = 0 THEN patients_coll
                              ELSE update_one(patients_coll, i,
                                              mongo_patch_patient_payload(request.body))
          /\ last' = [op |-> "mongo.patch_patient", key |-> request.key,
                      body |-> request.body, outcome |-> "updated", pos |-> i,
                      in_flight |-> Cardinality(pending')]
    /\ UNCHANGED <<tables, logs, counters, sp_call, staff_coll, services_weekly_coll,
                   staff_schedule_coll, nreq>>

\* DELETE /patients/{patient_id} of the document API
mongo_delete_patient(patient_id) ==
    /\ nreq < MaxRequests
    /\ sp_call = NULL
    /\ IF find_one(patients_coll, patient_id) = 0
       THEN /\ Respond([op |-> "mongo.delete_patient", key |-> patient_id,
                        outcome |-> "NotFound"])
            /\ UNCHANGED <<tables, logs, counters, sp_call, documents, pending>>
       ELSE /\ patients_coll' = delete_one(patients_coll, find_one(patients_coll, patient_id))
            /\ Respond([op |-> "mongo.delete_patient", key |-> patient_id,
                        outcome |-> "deleted"])
            /\ UNCHANGED <<tables, logs, counters, sp_call, staff_coll, services_weekly_coll, staff_schedule_coll, pending>>

(***************************************************************************)
(* The document store: collection staff                                    *)
(***************************************************************************)
\* The document create_staff and update_staff build of the payload and the key
StaffDoc(body, staff_id) ==
    LET payload == StaffModel(body)
        role_value == EnumValue(payload.role)
        service_value == EnumValue(payload.service)
    IN [staff_id |-> Some(staff_id), staff_name |-> payload.staff_name,
        role |-> role_value, service |-> service_value]

\* staffs_schema as a JSON schema: the four keys are required and are strings
staffs_schema(doc) ==
    /\ {"staff_id", "staff_name", "role", "service"} \subseteq DOMAIN doc
    /\ \A f \in DOMAIN doc : doc[f] # NULL

\* The position of the first document a filter {field: value} matches, 0 if none
find_one_by(coll, field, value) ==
    IF \E i \in DOMAIN coll : coll[i][field] = value
    THEN CHOOSE i \in DOMAIN coll :
            /\ coll[i][field] = value
            /\ \A j \in DOMAIN coll : coll[j][field] = value => i <= j
    ELSE 0

\* POST /staff of the document API: no unique index guards staff_id
mongo_create_staff(body, staff_id) ==
    /\ nreq < MaxRequests
    /\ sp_call = NULL
    /\ IF ~StaffIn(body)
       THEN /\ Respond([op |-> "mongo.create_staff", key |-> "", body |-> body,
                        outcome |-> "ShapeError"])
            /\ UNCHANGED <<tables, logs, counters, sp_call, documents, pending>>
       ELSE IF ~staffs_schema(StaffDoc(body, staff_id))
       THEN /\ Respond([op |-> "mongo.create_staff", key |-> staff_id, body |-> body,
                        outcome |-> "SchemaError"])
            /\ UNCHANGED <<tables, logs, counters, sp_call, documents, pending>>
       ELSE /\ staff_coll' = Append(staff_coll, StaffDoc(body, staff_id))
            /\ Respond([op |-> "mongo.create_staff", key |-> staff_id, body |-> body,
                        outcome |-> "created",
                        row |-> staff_coll'[find_one_by(staff_coll', "staff_id",
                                                        Some(staff_id))]])
            /\ UNCHANGED <<tables, logs, counters, sp_call, patients_coll,
                           services_weekly_coll, staff_schedule_coll, pending>>

\* PUT /staff/{staff_id} of the document API
mongo_update_staff(staff_id, body) ==
    /\ nreq < MaxRequests
    /\ sp_call = NULL
    /\ LET i == find_one_by(staff_coll, "staff_id", Some(staff_id))
       IN IF ~StaffIn(body)
          THEN /\ Respond([op |-> "mongo.update_staff", key |-> staff_id, body |-> body,
                           outcome |-> "ShapeError"])
               /\ UNCHANGED <<tables, logs, counters, sp_call, documents, pending>>
          ELSE IF ~staffs_schema(StaffDoc(body, staff_id))
          THEN /\ Respond([op |-> "mongo.update_staff", key |-> staff_id, body |-> body,
                           outcome |-> "SchemaError"])
               /\ UNCHANGED <<tables, logs, counters, sp_call, documents, pending>>
          ELSE IF i = 0
          THEN /\ Respond([op |-> "mongo.update_staff", key |-> staff_id, body |-> body,
                           outcome |-> "NotFound"])
               /\ UNCHANGED <<tables, logs, counters, sp_call, documents, pending>>
          ELSE /\ staff_coll' = update_one(staff_coll, i, StaffDoc(body, staff_id))
               /\ Respond([op |-> "mongo.update_staff", key |-> staff_id, body |-> body,
                           outcome |-> "updated", pos |-> i])
               /\ UNCHANGED <<tables, logs, counters, sp_call, patients_coll,
                              services_weekly_coll, staff_schedule_coll, pending>>

\* payload.model_dump(exclude_unset=True) of a StaffPatch, enum members
\* turned into their values: a key carried with null stays, as None
mongo_patch_staff_payload(body) ==
    LET payload == StaffModel(body.data)
    IN [f \in body.fields_set |->
           IF f = "staff_name" THEN payload.staff_name ELSE EnumValue(payload[f])]

\* PATCH /staff/{staff_id} of the document API
mongo_patch_staff(staff_id, body) ==
    /\ nreq < MaxRequests
    /\ sp_call = NULL
    /\ LET i == find_one_by(staff_coll, "staff_id", Some(staff_id))
           payload_dict == mongo_patch_staff_payload(body)
       IN IF ~StaffPatch(body)
          THEN /\ Respond([op |-> "mongo.patch_staff", key |-> staff_id, body |-> body,
                           outcome |-> "ShapeError"])
               /\ UNCHANGED <<tables, logs, counters, sp_call, documents, pending>>
          ELSE IF i = 0
          THEN /\ Respond([op |-> "mongo.patch_staff", key |-> staff_id, body |-> body,
                           outcome |-> "NotFound"])
               /\ UNCHANGED <<tables, logs, counters, sp_call, documents, pending>>
          ELSE IF DOMAIN payload_dict = {}
          THEN /\ Respond([op |-> "mongo.patch_staff", key |-> staff_id, body |-> body,
                           outcome |-> "EmptyPatch"])
               /\ UNCHANGED <<tables, logs, counters, sp_call, documents, pending>>
          ELSE IF ~staffs_schema(update_one(staff_coll, i, payload_dict)[i])
          THEN /\ Respond([op |-> "mongo.patch_staff", key |-> staff_id, body |-> body,
                           outcome |-> "SchemaError"])
               /\ UNCHANGED <<tables, logs, counters, sp_call, documents, pending>>
          ELSE /\ staff_coll' = update_one(staff_coll, i, payload_dict)
               /\ Respond([op |-> "mongo.patch_staff", key |-> staff_id, body |-> body,
                           outcome |-> "updated", pos |-> i])
               /\ UNCHANGED <<tables, logs, counters, sp_call, patients_coll,
                              services_weekly_coll, staff_schedule_coll, pending>>

\* DELETE /staff/{staff_id} of the document API: the count deleted, never a 404
mongo_delete_staff(staff_id) ==
    /\ nreq < MaxRequests
    /\ sp_call = NULL
    /\ LET i == find_one_by(staff_coll, "staff_id", Some(staff_id))
       IN /\ staff_coll' = IF i = 0 THEN staff_coll ELSE delete_one(staff_coll, i)
          /\ Respond([op |-> "mongo.delete_staff", key |-> staff_id, outcome |-> "deleted",
                      count |-> IF i = 0 THEN 0 ELSE 1])
    /\ UNCHANGED <<tables, logs, counters, sp_call, patients_coll, services_weekly_coll,
                   staff_schedule_coll, pending>>

(***************************************************************************)
(* The document store: collection services_weekly                          *)
(***************************************************************************)
\* services_weekly_schema as a JSON schema: the nine required keys are
\* present, and no key of the schema holds null (event, when present, is a string)
services_weekly_schema(doc) ==
    /\ (WeeklyFields \ {"event"}) \subseteq DOMAIN doc
    /\ \A f \in DOMAIN doc \cap WeeklyFields : doc[f] # NULL

\* The ObjectId insert_one gives a document: one no document of the collection has
ObjectId(coll) ==
    IF coll = <<>> THEN 1
    ELSE 1 + (CHOOSE n \in {coll[i]._id : i \in DOMAIN coll} :
                 \A i \in DOMAIN coll : coll[i]._id <= n)

\* POST /services-weekly of the document API: no unique index on the collection
mongo_create_service_weekly(body) ==
    /\ nreq < MaxRequests
    /\ sp_call = NULL
    /\ LET doc == Restrict(body, WeeklyFields)
           inserted_id == ObjectId(services_weekly_coll)
       IN IF ~ServiceWeeklyIn(body)
          THEN /\ Respond([op |-> "mongo.create_service_weekly", body |-> body,
                           outcome |-> "ShapeError"])
               /\ UNCHANGED <<tables, logs, counters, sp_call, documents, pending>>
          ELSE IF ~services_weekly_schema(doc)
          THEN /\ Respond([op |-> "mongo.create_service_weekly", body |-> body,
                           outcome |-> "SchemaError"])
               /\ UNCHANGED <<tables, logs, counters, sp_call, documents, pending>>
          ELSE /\ services_weekly_coll' =
                     Append(services_weekly_coll,
                            [f \in WeeklyFields \cup {"_id"} |->
                                IF f = "_id" THEN inserted_id ELSE doc[f]])
               /\ Respond([op |-> "mongo.create_service_weekly", body |-> body,
                           outcome |-> "created",
                           row |-> services_weekly_coll'[
                                      find_one_by(services_weekly_coll', "_id", inserted_id)]])
               /\ UNCHANGED <<tables, logs, counters, sp_call, patients_coll, staff_coll,
                              staff_schedule_coll, pending>>

\* PUT /services-weekly/{id} of the document API
mongo_update_service_weekly(id, body) ==
    /\ nreq < MaxRequests
    /\ sp_call = NULL
    /\ LET doc == Restrict(body, WeeklyFields)
           i == find_one_by(services_weekly_coll, "_id", id)
       IN IF ~ServiceWeeklyIn(body)
          THEN /\ Respond([op |-> "mongo.update_service_weekly", key |-> id, body |-> body,
                           outcome |-> "ShapeError"])
               /\ UNCHANGED <<tables, logs, counters, sp_call, documents, pending>>
          ELSE IF ~services_weekly_schema(doc)
          THEN /\ Respond([op |-> "mongo.update_service_weekly", key |-> id, body |-> body,
                           outcome |-> "SchemaError"])
               /\ UNCHANGED <<tables, logs, counters, sp_call, documents, pending>>
          ELSE IF i = 0
          THEN /\ Respond([op |-> "mongo.update_service_weekly", key |-> id, body |-> body,
                           outcome |-> "NotFound"])
               /\ UNCHANGED <<tables, logs, counters, sp_call, documents, pending>>
          ELSE /\ services_weekly_coll' = update_one(services_weekly_coll, i, doc)
               /\ Respond([op |-> "mongo.update_service_weekly", key |-> id, body |-> body,
                           outcome |-> "updated", pos |-> i])
               /\ UNCHANGED <<tables, logs, counters, sp_call, patients_coll, staff_coll,
                              staff_schedule_coll, pending>>

(***************************************************************************)
(* The document store: collection staff_schedule                           *)
(***************************************************************************)
\* staff_schedule_schema as a JSON schema: week, staff_id, staff_name, role,
\* service and present are required, and no key of the schema holds null
staff_schedule_schema(doc) ==
    /\ {"week", "staff_id", "staff_name", "role", "service", "present"} \subseteq DOMAIN doc
    /\ \A f \in DOMAIN doc \cap {"week", "staff_id", "staff_name", "role", "service",
                                 "present"} : doc[f] # NULL

\* payload.model_dump() of create_staff_schedule with on_shift as a bool
ScheduleDoc(body) ==
    [f \in ScheduleFields |->
        IF f = "on_shift" THEN Some(body.on_shift # NULL /\ body.on_shift[1]) ELSE body[f]]

\* POST /staff-schedule of the document API: the document is inserted as dumped
mongo_create_staff_schedule(body) ==
    /\ nreq < MaxRequests
    /\ sp_call = NULL
    /\ LET doc == ScheduleDoc(body)
           inserted_id == ObjectId(staff_schedule_coll)
       IN IF ~StaffScheduleIn(body)
          THEN /\ Respond([op |-> "mongo.create_staff_schedule", body |-> body,
                           outcome |-> "ShapeError"])
               /\ UNCHANGED <<tables, logs, counters, sp_call, documents, pending>>
          ELSE /\ staff_schedule_coll' =
                     Append(staff_schedule_coll,
                            [f \in ScheduleFields \cup {"_id"} |->
                                IF f = "_id" THEN inserted_id ELSE doc[f]])
               /\ Respond([op |-> "mongo.create_staff_schedule", body |-> body,
                           outcome |-> "created",
                           row |-> staff_schedule_coll'[
                                      find_one_by(staff_schedule_coll', "_id", inserted_id)]])
               /\ UNCHANGED <<tables, logs, counters, sp_call, patients_coll, staff_coll,
                              services_weekly_coll, pending>>

\* PUT /staff-schedule/{id} of the document API: on_shift is written as 1 or 0
mongo_update_staff_schedule(id, body) ==
    /\ nreq < MaxRequests
    /\ sp_call = NULL
    /\ LET doc == ScheduleColumns(body)
           i == find_one_by(staff_schedule_coll, "_id", id)
       IN IF ~StaffScheduleIn(body)
          THEN /\ Respond([op |-> "mongo.update_staff_schedule", key |-> id, body |-> body,
                           outcome |-> "ShapeError"])
               /\ UNCHANGED <<tables, logs, counters, sp_call, documents, pending>>
          ELSE IF i = 0
          THEN /\ Respond([op |-> "mongo.update_staff_schedule", key |-> id, body |-> body,
                           outcome |-> "NotFound"])
               /\ UNCHANGED <<tables, logs, counters, sp_call, documents, pending>>
          ELSE /\ staff_schedule_coll' = update_one(staff_schedule_coll, i, doc)
               /\ Respond([op |-> "mongo.update_staff_schedule", key |-> id, body |-> body,
                           outcome |-> "updated", pos |-> i])
               /\ UNCHANGED <<tables, logs, counters, sp_call, patients_coll, staff_coll,
                              services_weekly_coll, pending>>

\* payload.model_dump(exclude_unset=True) of a StaffSchedulePatch, an on_shift
\* that is not null turned into 1 or 0
mongo_patch_staff_schedule_payload(body) ==
    [f \in body.fields_set |->
        IF f = "on_shift" /\ body.data.on_shift # NULL THEN OnShiftBit(body.data.on_shift)
        ELSE body.data[f]]

\* PATCH /staff-schedule/{id} of the document API
mongo_patch_staff_schedule(id, body) ==
    /\ nreq < MaxRequests
    /\ sp_call = NULL
    /\ LET i == find_one_by(staff_schedule_coll, "_id", id)
           payload_dict == mongo_patch_staff_schedule_payload(body)
       IN IF ~StaffSchedulePatch(body)
          THEN /\ Respond([op |-> "mongo.patch_staff_schedule", key |-> id, body |-> body,
                           outcome |-> "ShapeError"])
               /\ UNCHANGED <<tables, logs, counters, sp_call, documents, pending>>
          ELSE IF i = 0
          THEN /\ Respond([op |-> "mongo.patch_staff_schedule", key |-> id, body |-> body,
                           outcome |-> "NotFound"])
               /\ UNCHANGED <<tables, logs, counters, sp_call, documents, pending>>
          ELSE IF DOMAIN payload_dict = {}
          THEN /\ Respond([op |-> "mongo.patch_staff_schedule", key |-> id, body |-> body,
                           outcome |-> "EmptyPatch"])
               /\ UNCHANGED <<tables, logs, counters, sp_call, documents, pending>>
          ELSE /\ staff_schedule_coll' = update_one(staff_schedule_coll, i, payload_dict)
               /\ Respond([op |-> "mongo.patch_staff_schedule", key |-> id, body |-> body,
                           outcome |-> "updated", pos |-> i])
               /\ UNCHANGED <<tables, logs, counters, sp_call, patients_coll, staff_coll,
                              services_weekly_coll, pending>>

(***************************************************************************)
(* Request bodies the model sends                                          *)
(***************************************************************************)
AlicePatient ==
    [name |-> Some("Alice"), age |-> Some(45), arrival_date |-> Some(10),
     departure_date |-> Some(20), service |-> Some("ICU"), satisfaction |-> Some(80)]

PatientBodies ==
    {[AlicePatient EXCEPT !.satisfaction = s] : s \in {Some(80), NULL, Some(150)}}
    \cup {[AlicePatient EXCEPT !.age = Some(-1), !.satisfaction = s] : s \in {Some(80), Some(150)}}
    \cup {[AlicePatient EXCEPT !.departure_date = d] : d \in {NULL, Some(5)}}
    \cup {[AlicePatient EXCEPT !.name = n, !.service = NULL] : n \in {Some(""), Some("Bob")}}

\* The bodies sent to the document API
DocumentBodies ==
    {AlicePatient, [AlicePatient EXCEPT !.satisfaction = NULL]}
    \cup {[AlicePatient EXCEPT !.departure_date = d] : d \in {NULL, Some(5)}}

\* The dicts the procedure is called with directly
ProcPatients ==
    {[patient_id |-> Some(id), name |-> Some("Carol"), age |-> a, arrival_date |-> Some(10),
      departure_date |-> NULL, service |-> NULL, satisfaction |-> sat] :
        id \in PatientIds, a \in {Some(30), Some(-1)}, sat \in {Some(80), Some(150)}}

NoPatientPatch ==
    [name |-> NULL, age |-> NULL, arrival_date |-> NULL, departure_date |-> NULL,
     service |-> NULL, satisfaction |-> NULL]

PatientPatchBodies ==
    {[fields_set |-> {}, data |-> NoPatientPatch],
     [fields_set |-> {"name"}, data |-> NoPatientPatch],
     [fields_set |-> {"satisfaction"}, data |-> [NoPatientPatch EXCEPT !.satisfaction = Some(90)]],
     [fields_set |-> {"satisfaction"}, data |-> [NoPatientPatch EXCEPT !.satisfaction = Some(150)]],
     [fields_set |-> {"departure_date"}, data |-> [NoPatientPatch EXCEPT !.departure_date = Some(5)]],
     [fields_set |-> {"arrival_date", "departure_date"},
      data |-> [NoPatientPatch EXCEPT !.arrival_date = Some(10), !.departure_date = Some(5)]],
     [fields_set |-> {"age", "service"}, data |-> [NoPatientPatch EXCEPT !.service = Some("surgery")]]}

AnnStaff == [staff_name |-> Some("Ann"), role |-> Some("doctor"), service |-> Some("ICU")]

StaffBodies ==
    {AnnStaff,
     [staff_name |-> Some("Ann"), role |-> Some("nurse"), service |-> Some("FRONT DESK"),
      staff_id |-> Some("STF-mine")],
     [AnnStaff EXCEPT !.role = NULL, !.service = NULL],
     [AnnStaff EXCEPT !.role = Some("admin")]}

NoStaffPatch == [staff_name |-> NULL, role |-> NULL, service |-> NULL]

StaffPatchBodies ==
    {[fields_set |-> {}, data |-> NoStaffPatch],
     [fields_set |-> {"role"}, data |-> NoStaffPatch],
     [fields_set |-> {"role"}, data |-> [NoStaffPatch EXCEPT !.role = Some("nurse")]],
     [fields_set |-> {"role"}, data |-> [NoStaffPatch EXCEPT !.role = Some("admin")]],
     [fields_set |-> {"staff_name", "service"},
      data |-> [NoStaffPatch EXCEPT !.staff_name = Some("Bea"), !.service = Some("surgery")]]}

\* The ids requests address in staff_schedule and services_weekly
RowIds == 1 .. 2

MondayShift ==
    [day_or_shift |-> Some("monday"), staff_id |-> NULL, staff_name |-> Some("Ann"),
     role |-> Some("doctor"), service |-> Some("ICU"), on_shift |-> Some(TRUE)]

ScheduleBodies ==
    {MondayShift,
     [MondayShift EXCEPT !.staff_id = Some("STF-0a1"), !.on_shift = NULL],
     [MondayShift EXCEPT !.day_or_shift = Some(""), !.staff_id = Some("STF-0a2")]}

NoSchedulePatch ==
    [day_or_shift |-> NULL, staff_id |-> NULL, staff_name |-> NULL, role |-> NULL,
     service |-> NULL, on_shift |-> NULL]

SchedulePatchBodies ==
    {[fields_set |-> {}, data |-> NoSchedulePatch],
     [fields_set |-> {"on_shift"}, data |-> NoSchedulePatch],
     [fields_set |-> {"on_shift"}, data |-> [NoSchedulePatch EXCEPT !.on_shift = Some(FALSE)]],
     [fields_set |-> {"staff_id"}, data |-> [NoSchedulePatch EXCEPT !.staff_id = Some("STF-0a2")]],
     [fields_set |-> {"staff_id", "service"},
      data |-> [NoSchedulePatch EXCEPT !.service = Some("surgery")]]}

EmergencyWeek ==
    [week |-> Some(10), month |-> Some(3), service |-> Some("emergency"),
     available_beds |-> Some(20), patients_request |-> Some(30),
     patients_admitted |-> Some(25), patients_refused |-> Some(5),
     patient_satisfaction |-> Some(80), staff_morale |-> Some(70), event |-> Some("none")]

WeeklyBodies ==
    {EmergencyWeek,
     [EmergencyWeek EXCEPT !.week = Some(11), !.available_beds = NULL,
                           !.patient_satisfaction = NULL],
     [EmergencyWeek EXCEPT !.staff_morale = Some(101)],
     [EmergencyWeek EXCEPT !.patients_refused = Some(-1)]}

NoWeeklyPatch ==
    [week |-> NULL, month |-> NULL, service |-> NULL, available_beds |-> NULL,
     patients_request |-> NULL, patients_admitted |-> NULL, patients_refused |-> NULL,
     patient_satisfaction |-> NULL, staff_morale |-> NULL, event |-> NULL]

WeeklyPatchBodies ==
    {[fields_set |-> {}, data |-> NoWeeklyPatch],
     [fields_set |-> {"week"}, data |-> NoWeeklyPatch],
     [fields_set |-> {"week"}, data |-> [NoWeeklyPatch EXCEPT !.week = Some(11)]],
     [fields_set |-> {"patient_satisfaction"},
      data |-> [NoWeeklyPatch EXCEPT !.patient_satisfaction = Some(90)]],
     [fields_set |-> {"staff_morale"}, data |-> [NoWeeklyPatch EXCEPT !.staff_morale = Some(150)]],
     [fields_set |-> {"available_beds", "event"},
      data |-> [NoWeeklyPatch EXCEPT !.event = Some("flu")]]}

(***************************************************************************)
(* The specification                                                       *)
(***************************************************************************)
Init ==
    /\ patients = {}
    /\ staff = {}
    /\ staff_schedule = {}
    /\ services_weekly = {}
    /\ audit_log = <<>>
    /\ validation_errors = <<>>
    /\ schedule_auto_inc = 1
    /\ weekly_auto_inc = 1
    /\ sp_call = NULL
    /\ patients_coll = <<>>
    /\ staff_coll = <<>>
    /\ services_weekly_coll = <<>>
    /\ staff_schedule_coll = <<>>
    /\ pending = {}
    /\ last = [op |-> "none", outcome |-> "none"]
    /\ nreq = 0

PatientRequests ==
    \/ \E body \in PatientBodies : \E id \in generate_patient_id : create_patient(body, id)
    \/ \E body \in PatientBodies : \E id \in PatientIds : update_patient(id, body)
    \/ \E body \in PatientPatchBodies : \E id \in PatientIds : patch_patient(id, body)
    \/ \E id \in PatientIds : delete_patient(id)

StaffRequests ==
    \/ \E body \in StaffBodies : \E id \in generate_staff_id : create_staff(body, id)
    \/ \E body \in StaffBodies : \E id \in StaffIds : update_staff(id, body)
    \/ \E body \in StaffPatchBodies : \E id \in StaffIds : patch_staff(id, body)
    \/ \E id \in StaffIds : delete_staff(id)

ScheduleRequests ==
    \/ \E body \in ScheduleBodies : create_staff_schedule(body)
    \/ \E body \in ScheduleBodies : \E id \in RowIds : update_staff_schedule(id, body)
    \/ \E body \in SchedulePatchBodies : \E id \in RowIds : patch_staff_schedule(id, body)
    \/ \E id \in RowIds : delete_staff_schedule(id)

WeeklyRequests ==
    \/ \E body \in WeeklyBodies : create_service_weekly(body)
    \/ \E body \in WeeklyBodies : \E id \in RowIds : update_service_weekly(id, body)
    \/ \E body \in WeeklyPatchBodies : \E id \in RowIds : patch_service_weekly(id, body)
    \/ \E id \in RowIds : delete_service_weekly(id)

MongoRequests ==
    \/ \E body \in DocumentBodies : \E id \in generate_patient_id :
          mongo_create_patient(body, id)
    \/ \E body \in DocumentBodies : \E id \in PatientIds : mongo_update_patient(id, body)
    \/ \E body \in PatientPatchBodies : \E id \in PatientIds : mongo_patch_patient(id, body)
    \/ \E id \in PatientIds : mongo_delete_patient(id)

Next ==
    PatientRequests \/ StaffRequests \/ ScheduleRequests \/ WeeklyRequests \/ MongoRequests

Spec == Init /\ [][Next]_vars

\* The requests and direct calls of the stored procedure
ProcCalls ==
    \E patient \in ProcPatients : call_sp_insert_patient(patient, "batch")

NextProc == Next \/ ProcCalls

SpecProc == Init /\ [][NextProc]_vars

\* The patient requests with the procedure run statement by statement
NextCrash ==
    \/ \E body \in PatientBodies : \E id \in generate_patient_id :
          create_patient_begin(body, id)
    \/ create_patient_finish
    \/ create_patient_crash
    \/ \E body \in PatientBodies : \E id \in PatientIds : update_patient(id, body)
    \/ \E body \in PatientPatchBodies : \E id \in PatientIds : patch_patient(id, body)
    \/ \E id \in PatientIds : delete_patient(id)

SpecCrash == Init /\ [][NextCrash]_vars

\* The staff and schedule requests with POST /staff-schedule run statement by
\* statement, each request on its own connection
NextConcurrent ==
    \/ \E body \in ScheduleBodies : create_staff_schedule_insert(body)
    \/ \E request \in pending : create_staff_schedule_select(request)
    \/ \E body \in StaffBodies : \E id \in generate_staff_id : create_staff(body, id)
    \/ \E id \in RowIds : delete_staff_schedule(id)

SpecConcurrent == Init /\ [][NextConcurrent]_vars

\* The relational store after POST /staff {"staff_name": "Ann", "role":
\* "doctor", "service": "ICU"} was given the key STF-0a1: create_staff writes
\* the row and no audit record
InitStaff ==
    /\ patients = {}
    /\ staff = {[staff_id |-> "STF-0a1", staff_name |-> Some("Ann"),
                 role |-> Some("doctor"), service |-> Some("ICU")]}
    /\ staff_schedule = {}
    /\ services_weekly = {}
    /\ audit_log = <<>>
    /\ validation_errors = <<>>
    /\ schedule_auto_inc = 1
    /\ weekly_auto_inc = 1
    /\ sp_call = NULL
    /\ patients_coll = <<>>
    /\ staff_coll = <<>>
    /\ services_weekly_coll = <<>>
    /\ staff_schedule_coll = <<>>
    /\ pending = {}
    /\ last = [op |-> "create_staff", key |-> "STF-0a1", body |-> AnnStaff,
               outcome |-> "created"]
    /\ nreq = 0

\* The staff and schedule requests that follow
NextStaff == StaffRequests \/ ScheduleRequests

SpecStaff == InitStaff /\ [][NextStaff]_vars

\* The patient requests of both APIs with PATCH run statement by statement,
\* each request on its own connection
NextInterleaved ==
    \/ \E body \in DocumentBodies : \E id \in generate_patient_id : create_patient(body, id)
    \/ \E id \in PatientIds : delete_patient(id)
    \/ \E body \in PatientPatchBodies : \E id \in PatientIds : patch_patient_check(id, body)
    \/ \E request \in pending : patch_patient_write(request)
    \/ \E body \in DocumentBodies : \E id \in generate_patient_id :
          mongo_create_patient(body, id)
    \/ \E id \in PatientIds : mongo_delete_patient(id)
    \/ \E body \in PatientPatchBodies : \E id \in PatientIds :
          mongo_patch_patient_find(id, body)
    \/ \E request \in pending : mongo_patch_patient_update(request)

SpecInterleaved == Init /\ [][NextInterleaved]_vars

\* The requests of the document API
MongoStaffRequests ==
    \/ \E body \in StaffBodies : \E id \in generate_staff_id : mongo_create_staff(body, id)
    \/ \E body \in StaffBodies : \E id \in StaffIds : mongo_update_staff(id, body)
    \/ \E body \in StaffPatchBodies : \E id \in StaffIds : mongo_patch_staff(id, body)
    \/ \E id \in StaffIds : mongo_delete_staff(id)

MongoWeeklyRequests ==
    \/ \E body \in WeeklyBodies : mongo_create_service_weekly(body)
    \/ \E body \in WeeklyBodies : \E id \in RowIds : mongo_update_service_weekly(id, body)

MongoScheduleRequests ==
    \/ \E body \in ScheduleBodies : mongo_create_staff_schedule(body)
    \/ \E body \in ScheduleBodies : \E id \in RowIds : mongo_update_staff_schedule(id, body)
    \/ \E body \in SchedulePatchBodies : \E id \in RowIds :
          mongo_patch_staff_schedule(id, body)

NextDocument ==
    MongoRequests \/ MongoStaffRequests \/ MongoWeeklyRequests \/ MongoScheduleRequests

SpecDocument == Init /\ [][NextDocument]_vars

(***************************************************************************)
(* Properties                                                              *)
(***************************************************************************)
IsPrefix(s, t) == Len(s) <= Len(t) /\ SubSeq(t, 1, Len(s)) = s

\* The records a step appended to a log
Appended(log, log2) == SubSeq(log2, Len(log) + 1, Len(log2))

\* The text form of a stored patient row, as the audit trail writes it
PatientSnapshot(r) ==
    [patient_id |-> r.patient_id, name |-> IfNullEmpty(r.name), age |-> r.age,
     arrival_date |-> r.arrival_date, departure_date |-> r.departure_date,
     service |-> IfNullEmpty(r.service), satisfaction |-> r.satisfaction]

\* A valid Patient payload: a name, satisfaction in [0,100], age >= 0,
\* departure >= arrival when both are set
ValidPatientPayload(b) ==
    /\ b.name # NULL /\ b.name[1] # ""
    /\ b.satisfaction = NULL \/ (b.satisfaction[1] >= 0 /\ b.satisfaction[1] <= 100)
    /\ b.age = NULL \/ b.age[1] >= 0
    /\ b.departure_date = NULL \/ b.arrival_date = NULL
          \/ b.departure_date[1] >= b.arrival_date[1]

\* The step appends exactly one AuditRecord, an INSERT of the key with no
\* before-state and the stored row as after-state
OneInsertAudit(key) ==
    /\ \E r \in patients' :
          /\ r.patient_id = key
          /\ patients' = patients \cup {r}
          /\ Appended(audit_log, audit_log') =
                <<[table_name |-> "patients", row_pk |-> Some(key), operation |-> "INSERT",
                   old_values |-> NULL, new_values |-> Some(PatientSnapshot(r)),
                   changed_by |-> "api"]>>
    /\ IsPrefix(audit_log, audit_log')

C2_RejectionRecorded ==
    [][(last'.op = "create_patient" /\ last'.body.satisfaction = Some(150)) =>
          /\ last'.outcome = "RuleError"
          /\ patients' = patients
          /\ IsPrefix(validation_errors, validation_errors')
          /\ Len(Appended(validation_errors, validation_errors')) = 1
          /\ \E i \in DOMAIN validation_errors'[Len(validation_errors')].error_message :
                validation_errors'[Len(validation_errors')].error_message[i] =
                   [field |-> "satisfaction", value |-> 150]]_vars

\* A step that wrote a row: an insert, a replace or a patch that succeeded
SuccessfulWrite ==
    /\ last'.outcome \in {"created", "updated"}
    /\ last'.op \notin {"mongo.create_patient", "mongo.update_patient", "mongo.patch_patient"}
    /\ last'.op \in {"update_staff", "update_staff_schedule", "update_service_weekly"} =>
          CASE last'.op = "update_staff" -> \E r \in staff : r.staff_id = last'.key
            [] last'.op = "update_staff_schedule" ->
                  \E r \in staff_schedule : r.id = last'.key
            [] OTHER -> \E r \in services_weekly : r.id = last'.key

\* C3: every successful write (insert, replace, patch) on every business
\* table appends exactly one AuditRecord; none leaves audit_log unchanged and
\* none appends more than one.
C3_EveryWriteAudited ==
    [][SuccessfulWrite =>
          /\ IsPrefix(audit_log, audit_log')
          /\ Len(audit_log') = Len(audit_log) + 1
          /\ audit_log'[Len(audit_log')].row_pk # NULL]_vars

\* C4: with no procedure call in flight, every stored patient row has its
\* INSERT AuditRecord, also after a failure between the two statements.
C4_RowHasInsertAudit ==
    sp_call = NULL =>
       \A r \in patients :
          \E i \in DOMAIN audit_log :
             /\ audit_log[i].table_name = "patients"
             /\ audit_log[i].operation = "INSERT"
             /\ audit_log[i].row_pk = Some(r.patient_id)

\* C5: audit_log and validation_errors are append-only: every step keeps
\* every record of both logs, in place and unchanged.
C5_LogsAppendOnly ==
    [][IsPrefix(audit_log, audit_log') /\ IsPrefix(validation_errors, validation_errors')]_vars

\* C5's case: both logs hold a record and a delete has just removed a row
C5_Witness ==
    /\ last.op = "delete_patient" /\ last.outcome = "deleted"
    /\ Len(audit_log) >= 1 /\ Len(validation_errors) >= 1

\* C6: after any sequence of creates, replaces and patches every stored
\* patient row, of the table and of the collection, has
\* departure_date >= arrival_date when both are present.
C6_DatesOrdered ==
    /\ \A r \in patients :
          (r.departure_date # NULL /\ r.arrival_date # NULL) =>
             r.departure_date[1] >= r.arrival_date[1]
    /\ \A i \in DOMAIN patients_coll :
          (patients_coll[i].departure_date # NULL /\ patients_coll[i].arrival_date # NULL) =>
             patients_coll[i].departure_date[1].iso >= patients_coll[i].arrival_date[1].iso

\* A valid ServiceWeeklyMetric payload: week, month and service set and in
\* range, scores in [0,100] and counts >= 0 when present
ValidWeeklyPayload(b) ==
    /\ b.week # NULL /\ b.week[1] >= 1 /\ b.week[1] <= 53
    /\ b.month # NULL /\ b.month[1] >= 1 /\ b.month[1] <= 12
    /\ b.service # NULL /\ b.service[1] # ""
    /\ \A f \in {"patient_satisfaction", "staff_morale"} :
          b[f] = NULL \/ (b[f][1] >= 0 /\ b[f][1] <= 100)
    /\ \A f \in {"available_beds", "patients_request", "patients_admitted",
                 "patients_refused"} :
          b[f] = NULL \/ b[f][1] >= 0

\* C7: after any sequence of requests every stored patient row has
\* satisfaction in [0,100] and age >= 0 when present, every stored
\* services_weekly row has both scores in [0,100] and all counts >= 0 when
\* present, and a payload that is null in these fields is not rejected for it.
C7_RangesHold ==
    /\ \A r \in patients :
          /\ r.satisfaction # NULL => (r.satisfaction[1] >= 0 /\ r.satisfaction[1] <= 100)
          /\ r.age # NULL => r.age[1] >= 0
    /\ \A r \in services_weekly :
          /\ \A f \in {"patient_satisfaction", "staff_morale"} :
                r[f] # NULL => (r[f][1] >= 0 /\ r[f][1] <= 100)
          /\ \A f \in {"available_beds", "patients_request", "patients_admitted",
                       "patients_refused"} :
                r[f] # NULL => r[f][1] >= 0
    /\ (last.op \in {"create_patient", "update_patient"} /\ ValidPatientPayload(last.body))
          => last.outcome \notin {"ShapeError", "RuleError"}
    /\ (last.op \in {"create_service_weekly", "update_service_weekly"}
           /\ ValidWeeklyPayload(last.body))
          => last.outcome \notin {"ShapeError", "RuleError"}
    /\ (last.op \in {"patch_patient", "patch_service_weekly"}
           /\ \A f \in last.body.fields_set : last.body.data[f] = NULL)
          => last.outcome \notin {"ShapeError", "RuleError"}

\* C7's case: rows with null and with non-null scores are stored, and the
\* last request carried an out-of-range score
C7_Witness ==
    /\ \E r \in patients : r.satisfaction = NULL /\ r.age # NULL
    /\ \E r \in services_weekly : r.patient_satisfaction = NULL /\ r.staff_morale # NULL
    /\ last.op \in {"patch_patient", "patch_service_weekly"}
    /\ last.outcome = "ShapeError"

\* The patch requests
PatchOps ==
    {"patch_patient", "patch_staff", "patch_staff_schedule", "patch_service_weekly",
     "mongo.patch_patient"}

\* A successful patch of table tbl (tbl2 after the step) changed the row of
\* the key in the fields the body carries only, and no other row
PatchFrame(tbl, tbl2, keyOf(_), body) ==
    /\ {r \in tbl2 : keyOf(r) # last'.key} = {r \in tbl : keyOf(r) # last'.key}
    /\ \E old \in tbl : \E new \in tbl2 :
          /\ keyOf(old) = last'.key /\ keyOf(new) = last'.key
          /\ Cardinality({r \in tbl2 : keyOf(r) = last'.key}) = 1
          /\ \A f \in DOMAIN old : f \notin body.fields_set => new[f] = old[f]
          /\ \A f \in body.fields_set :
                body.data[f] # NULL =>
                   IF f = "on_shift"
                   THEN new[f] = Some(IF body.data[f][1] THEN 1 ELSE 0)
                   ELSE new[f] = body.data[f]

\* A successful patch of the collection changed one document of the key, in
\* the fields the body carries only, and no other document
DocumentFrame(coll, coll2, body) ==
    /\ Len(coll2) = Len(coll)
    /\ \E i \in DOMAIN coll :
          /\ coll[i].patient_id = Some(last'.key)
          /\ \A j \in DOMAIN coll : j # i => coll2[j] = coll[j]
          /\ DOMAIN coll2[i] = DOMAIN coll[i]
          /\ \A f \in DOMAIN coll[i] : f \notin body.fields_set => coll2[i][f] = coll[i][f]
          /\ \A f \in body.fields_set :
                body.data[f] # NULL =>
                   IF f \in {"arrival_date", "departure_date"}
                   THEN coll2[i][f] = Some([iso |-> body.data[f][1]])
                   ELSE coll2[i][f] = body.data[f]

PatientKey(r) == r.patient_id
StaffKey(r) == r.staff_id
RowId(r) == r.id

\* C8: a successful partial patch leaves every field absent from the patch at
\* its value before the patch, sets the fields the patch carries, and changes
\* no other row of any table.
C8_PatchFrame ==
    [][(last'.op \in PatchOps /\ last'.outcome = "updated") =>
          CASE last'.op = "patch_patient" ->
                  /\ PatchFrame(patients, patients', PatientKey, last'.body)
                  /\ UNCHANGED <<staff, staff_schedule, services_weekly, documents>>
            [] last'.op = "patch_staff" ->
                  /\ PatchFrame(staff, staff', StaffKey, last'.body)
                  /\ UNCHANGED <<patients, staff_schedule, services_weekly, documents>>
            [] last'.op = "patch_staff_schedule" ->
                  /\ PatchFrame(staff_schedule, staff_schedule', RowId, last'.body)
                  /\ UNCHANGED <<patients, staff, services_weekly, documents>>
            [] last'.op = "patch_service_weekly" ->
                  /\ PatchFrame(services_weekly, services_weekly', RowId, last'.body)
                  /\ UNCHANGED <<patients, staff, staff_schedule, documents>>
            [] OTHER ->
                  /\ DocumentFrame(patients_coll, patients_coll', last'.body)
                  /\ UNCHANGED tables]_vars

\* C8's case: the patch {satisfaction: 90} applied to one of two stored rows
C8_Witness ==
    /\ last.op = "patch_patient" /\ last.outcome = "updated"
    /\ last.body.fields_set = {"satisfaction"}
    /\ Cardinality(patients) = 2
    /\ \E r \in patients :
          /\ r.patient_id = last.key /\ r.satisfaction = Some(90)
          /\ r.age = Some(45) /\ r.service = Some("ICU")

\* The step applies again the patch the step before applied to the same key
SamePatchAgain ==
    /\ last.op \in PatchOps /\ last'.op = last.op
    /\ last.outcome = "updated" /\ last'.outcome = "updated"
    /\ last'.key = last.key /\ last'.body = last.body

\* C9: applying the same patch twice yields the same final row as
\* applying it once, and the two applications produce two AuditRecords whose
\* after-states are equal.
C9_TwoEqualAudits ==
    [][SamePatchAgain =>
          /\ UNCHANGED <<tables, documents>>
          /\ Len(audit_log) >= 1 /\ Len(audit_log') = Len(audit_log) + 1
          /\ audit_log'[Len(audit_log')].new_values = audit_log[Len(audit_log)].new_values]_vars

\* The key a replace or patch addresses has no row
KeyMissing ==
    CASE last'.op \in {"update_patient", "patch_patient"} ->
            \A r \in patients : r.patient_id # last'.key
      [] last'.op \in {"update_staff", "patch_staff"} ->
            \A r \in staff : r.staff_id # last'.key
      [] last'.op \in {"update_staff_schedule", "patch_staff_schedule"} ->
            \A r \in staff_schedule : r.id # last'.key
      [] last'.op \in {"update_service_weekly", "patch_service_weekly"} ->
            \A r \in services_weekly : r.id # last'.key
      [] OTHER -> FALSE

\* C10: a replace or a patch (with a body that passes the schema) addressed to
\* a key for which no row exists returns NotFound, for every entity kind, and
\* produces no AuditRecord, no RejectionRecord and no row mutation.
C10_MissingKeyNotFound ==
    [][(KeyMissing /\ last'.outcome # "ShapeError") =>
          /\ last'.outcome = "NotFound"
          /\ UNCHANGED <<tables, logs>>]_vars

\* The key a replace of a patient addresses has no row or document
ReplaceKeyMissing ==
    CASE last'.op = "update_patient" -> \A r \in patients : r.patient_id # last'.key
      [] last'.op = "mongo.update_patient" ->
            \A i \in DOMAIN patients_coll : patients_coll[i].patient_id # Some(last'.key)
      [] OTHER -> FALSE

\* C11: a full replace addressed to a key that does not exist ends NotFound
\* whatever its payload, also a payload that fails the shape contract, and
\* changes nothing.
C11_LookupBeforeValidation ==
    [][ReplaceKeyMissing =>
          /\ last'.outcome = "NotFound"
          /\ UNCHANGED <<tables, documents, logs>>]_vars

\* The outcomes of a request that failed the shape check or the rule check
RejectedOutcomes == {"ShapeError", "RuleError", "SchemaError", "validation_failed"}

\* The requests that create, replace or patch
WriteOps ==
    {"create_patient", "update_patient", "patch_patient", "call_sp_insert_patient",
     "create_staff", "update_staff", "patch_staff",
     "create_staff_schedule", "update_staff_schedule", "patch_staff_schedule",
     "create_service_weekly", "update_service_weekly", "patch_service_weekly",
     "mongo.create_patient", "mongo.update_patient", "mongo.patch_patient"}

\* The fields a patch carries are in range (null is in range)
ValidPatch(b, scores, counts) ==
    /\ \A f \in b.fields_set \cap scores :
          b.data[f] = NULL \/ (b.data[f][1] >= 0 /\ b.data[f][1] <= 100)
    /\ \A f \in b.fields_set \cap counts : b.data[f] = NULL \/ b.data[f][1] >= 0

\* The request passes the shape contract and the business rules of its kind
PassesChecks(op, b) ==
    CASE op \in {"create_patient", "update_patient", "call_sp_insert_patient",
                 "mongo.create_patient", "mongo.update_patient"} -> ValidPatientPayload(b)
      [] op \in {"patch_patient", "mongo.patch_patient"} ->
            /\ ValidPatch(b, {"satisfaction"}, {"age"})
            /\ ("departure_date" \in b.fields_set /\ b.data.departure_date # NULL
                  /\ b.data.arrival_date # NULL) =>
                  b.data.departure_date[1] >= b.data.arrival_date[1]
      [] op \in {"create_staff", "update_staff"} ->
            /\ b.staff_name # NULL /\ b.staff_name[1] # ""
            /\ b.role = NULL \/ b.role[1] \in {"doctor", "nurse", "nursing_assistant", "ADMIN"}
      [] op = "patch_staff" ->
            ("role" \in b.fields_set /\ b.data.role # NULL) =>
               b.data.role[1] \in {"doctor", "nurse", "nursing_assistant", "ADMIN"}
      [] op \in {"create_staff_schedule", "update_staff_schedule"} ->
            b.day_or_shift # NULL /\ b.day_or_shift[1] # ""
      [] op \in {"create_service_weekly", "update_service_weekly"} -> ValidWeeklyPayload(b)
      [] op = "patch_service_weekly" ->
            ValidPatch(b, {"patient_satisfaction", "staff_morale"},
                       {"available_beds", "patients_request", "patients_admitted",
                        "patients_refused"})
      [] OTHER -> TRUE

\* C12: the storage write of a create, replace or patch happens only after
\* the shape check and the rule check passed for that request, and a request
\* that fails either check leaves every business table and collection
\* exactly as it was.
C12_ChecksBeforeWrite ==
    [][/\ last'.outcome \in RejectedOutcomes =>
             UNCHANGED <<tables, documents, audit_log, counters>>
       /\ (last'.op \in WriteOps /\ <<tables, documents>>' # <<tables, documents>>) =>
             /\ last'.outcome \notin RejectedOutcomes
             /\ PassesChecks(last'.op, last'.body)]_vars

\* C12's case: the procedure rejected a patient while a row applied before
\* it is stored
C12_Witness ==
    /\ last.op = "call_sp_insert_patient" /\ last.outcome = "validation_failed"
    /\ patients # {}
    /\ Len(validation_errors) >= 1

\* The patient breaks a rule of the insert procedure
BreaksPatientRule(b) ==
    \/ b.satisfaction # NULL /\ (b.satisfaction[1] < 0 \/ b.satisfaction[1] > 100)
    \/ b.age # NULL /\ b.age[1] < 0

\* C13: whenever the insert procedure rejects a patient (satisfaction outside
\* [0,100] or age < 0) exactly one RejectionRecord is appended (table
\* 'patients', the attempted key, the message, the serialized payload), no
\* AuditRecord is appended, patients is unchanged and the caller gets a
\* client error carrying the message.
C13_RejectionRecord ==
    [][last'.op = "call_sp_insert_patient" =>
          /\ BreaksPatientRule(last'.body) <=> last'.outcome = "validation_failed"
          /\ BreaksPatientRule(last'.body) =>
                /\ IsPrefix(validation_errors, validation_errors')
                /\ Len(validation_errors') = Len(validation_errors) + 1
                /\ LET rec == validation_errors'[Len(validation_errors')]
                       b == last'.body
                   IN /\ rec.table_name = "patients"
                      /\ rec.row_pk = b.patient_id
                      /\ rec.error_message = last'.error_message
                      /\ rec.error_message # <<>>
                      /\ \A i \in DOMAIN rec.error_message :
                            b[rec.error_message[i].field] = Some(rec.error_message[i].value)
                      /\ rec.payload =
                            [patient_id |-> b.patient_id[1], name |-> IfNullEmpty(b.name),
                             age |-> b.age, arrival_date |-> b.arrival_date,
                             departure_date |-> b.departure_date,
                             service |-> IfNullEmpty(b.service),
                             satisfaction |-> b.satisfaction]
                /\ audit_log' = audit_log
                /\ UNCHANGED <<tables, documents>>
                /\ create_patient_outcome(last'.outcome) = "RuleError"]_vars

\* C13's case: a patient rejected for its satisfaction and for its age
C13_Witness ==
    /\ last.op = "call_sp_insert_patient" /\ last.outcome = "validation_failed"
    /\ Len(last.error_message) = 2
    /\ Len(validation_errors) >= 1
    /\ validation_errors[Len(validation_errors)].row_pk = last.body.patient_id

\* The row or document a patch addresses exists
PatchKeyExists ==
    CASE last'.op = "patch_patient" -> \E r \in patients : r.patient_id = last'.key
      [] last'.op = "mongo.patch_patient" ->
            \E i \in DOMAIN patients_coll : patients_coll[i].patient_id = Some(last'.key)
      [] last'.op = "patch_staff" -> \E r \in staff : r.staff_id = last'.key
      [] last'.op = "mongo.patch_staff" ->
            \E i \in DOMAIN staff_coll : staff_coll[i].staff_id = Some(last'.key)
      [] OTHER -> FALSE

\* The fields of a patch left to apply after filtering: the keys the request
\* carries, less those the filter drops (a patient's name, or a staff field,
\* carried with null)
FieldsToApply(op, b) ==
    IF op \in {"patch_patient", "mongo.patch_patient"}
    THEN {f \in b.fields_set : f = "name" => b.data[f] # NULL}
    ELSE {f \in b.fields_set : b.data[f] # NULL}

\* C14: a patch on an existing key whose set of fields to apply is empty after
\* filtering ends with EmptyPatch and leaves the stored row, audit_log and
\* validation_errors unchanged, identically on the relational and document
\* paths for the same request.
C14_EmptyPatchBothPaths ==
    [][(/\ PatchKeyExists
        /\ last'.outcome # "ShapeError"
        /\ FieldsToApply(last'.op, last'.body) = {}) =>
          /\ last'.outcome = "EmptyPatch"
          /\ UNCHANGED <<tables, documents, logs>>]_vars

\* The nullable fields of the row a relational patch addresses
NullableFields(op) ==
    CASE op = "patch_patient" -> PatientFields \ {"name"}
      [] op = "patch_staff" -> {"role", "service"}
      [] op = "patch_staff_schedule" -> ScheduleFields \ {"day_or_shift"}
      [] OTHER -> {}

\* The rows with the key of the last request, after the step
PatchedRows ==
    CASE last'.op = "patch_patient" -> {r \in patients' : r.patient_id = last'.key}
      [] last'.op = "patch_staff" -> {r \in staff' : r.staff_id = last'.key}
      [] last'.op = "patch_staff_schedule" -> {r \in staff_schedule' : r.id = last'.key}
      [] OTHER -> {}

\* C15: in a patch an absent key leaves the stored field untouched, while a
\* key present with a null value clears that field, for every nullable field
\* of every entity kind.
C15_NullClears ==
    [][last'.outcome # "ShapeError" =>
          \A r \in PatchedRows :
             \A f \in NullableFields(last'.op) \cap last'.body.fields_set :
                last'.body.data[f] = NULL => r[f] = NULL]_vars

\* The text of a staff row as the audit log carries it
StaffSnapshot(r) ==
    [staff_id |-> r.staff_id, staff_name |-> IfNullEmpty(r.staff_name),
     role |-> IfNullEmpty(r.role), service |-> IfNullEmpty(r.service)]

\* The staff row of a key in a table
StaffRowOf(tbl, key) == CHOOSE r \in tbl : r.staff_id = key

\* C16: updates to the same staff key, in the order the storage engine
\* serializes them, each complete: the stored row equals the values of the
\* update serialized last, and each write appends exactly one UPDATE record
\* whose before and after match the row around that write, so that two
\* updates leave two records in the serialization order.
C16_LastWriterWins ==
    [][(/\ last'.op = "update_staff"
        /\ last'.outcome # "ShapeError"
        /\ \E r \in staff : r.staff_id = last'.key) =>
          LET key == last'.key
              rec == audit_log'[Len(audit_log')]
          IN /\ last'.outcome = "updated"
             /\ {r \in staff' : r.staff_id = key} =
                   {[staff_id |-> key, staff_name |-> last'.body.staff_name,
                     role |-> last'.body.role, service |-> last'.body.service]}
             /\ IsPrefix(audit_log, audit_log')
             /\ Len(audit_log') = Len(audit_log) + 1
             /\ rec.table_name = "staff" /\ rec.operation = "UPDATE"
             /\ rec.row_pk = Some(key)
             /\ rec.old_values = Some(StaffSnapshot(StaffRowOf(staff, key)))
             /\ rec.new_values = Some(StaffSnapshot(StaffRowOf(staff', key)))
             /\ (last.op = "update_staff" /\ last.key = key /\ last.outcome = "updated") =>
                   /\ Len(audit_log) >= 1
                   /\ audit_log[Len(audit_log)].row_pk = Some(key)
                   /\ audit_log[Len(audit_log)].operation = "UPDATE"
                   /\ audit_log[Len(audit_log)].new_values = rec.old_values]_vars

\* C16's case: two updates of one staff key with different values, both audited
C16_Witness ==
    /\ last.op = "update_staff" /\ last.outcome = "updated"
    /\ Len(audit_log) = 2
    /\ audit_log[1].row_pk = Some(last.key) /\ audit_log[2].row_pk = Some(last.key)
    /\ audit_log[1].operation = "UPDATE" /\ audit_log[2].operation = "UPDATE"
    /\ audit_log[1].new_values = audit_log[2].old_values
    /\ audit_log[2].new_values # audit_log[2].old_values
    /\ \E r \in staff : r.staff_id = last.key /\ Some(StaffSnapshot(r)) = audit_log[2].new_values

\* C17: concurrent invocations are independent: each create returns the
\* record it itself inserted (two concurrent staff-schedule creates each get
\* their own row back).
C17_CreateReturnsOwnRow ==
    [][(last'.op = "create_staff_schedule" /\ last'.outcome = "created" /\ last' # last) =>
          last'.row.id = last'.inserted]_vars

\* Two stored weekly metrics carry the same (week, month, service)
SameTriple(r, q) == r.week = q.week /\ r.month = q.month /\ r.service = q.service

\* C18: no two stored weekly-metric rows ever share the same (week, month,
\* service) triple, in the table and in the collection: a create with a
\* triple already stored fails as StorageFailure and stores nothing.
C18_WeeklyTripleUnique ==
    /\ \A r, q \in services_weekly : SameTriple(r, q) => r.id = q.id
    /\ \A i, j \in DOMAIN services_weekly_coll :
          SameTriple(services_weekly_coll[i], services_weekly_coll[j]) => i = j

\* The keys the generator of a create can return
GeneratedKeys(op) == IF op = "create_patient" THEN generate_patient_id ELSE generate_staff_id

\* A row with the key is stored
KeyStored(op, key) ==
    IF op = "create_patient" THEN \E r \in patients : r.patient_id = key
    ELSE \E r \in staff : r.staff_id = key

\* The body of a create passes the shape check of its entity kind
CreateShapeOk(op, b) == IF op = "create_patient" THEN PatientIn(b) ELSE StaffIn(b)

\* C19 as stated: on create the key is assigned before any validation, so
\* every create request, whatever its payload, is given a generated key.
C19_KeyBeforeValidation ==
    [][last'.op \in {"create_patient", "create_staff"} =>
          last'.key \in GeneratedKeys(last'.op)]_vars

\* C19, amended: on create the pipeline assigns the business key itself, once
\* the payload has passed the shape check and before any write, and never
\* takes it from the payload; no collision check is made, so when the
\* generated key equals the key of an existing row the create fails, is not
\* retried with a new key, and the existing row is neither overwritten nor
\* re-audited.
C19_KeyAfterShapeCheck ==
    [][last'.op \in {"create_patient", "create_staff"} =>
          LET op == last'.op
              key == last'.key
          IN /\ last'.outcome = "ShapeError" <=> ~CreateShapeOk(op, last'.body)
             /\ last'.outcome = "ShapeError" =>
                   key \notin GeneratedKeys(op) /\ UNCHANGED <<tables, logs>>
             /\ last'.outcome # "ShapeError" =>
                   /\ key \in GeneratedKeys(op)
                   /\ KeyStored(op, key) =>
                         /\ last'.outcome = "StorageFailure"
                         /\ UNCHANGED <<tables, logs>>
                   /\ (~KeyStored(op, key) /\ last'.outcome = "created") =>
                         IF op = "create_patient"
                         THEN /\ patients' # patients
                              /\ patients' \ patients =
                                    {r \in patients' : r.patient_id = key}
                         ELSE /\ staff' # staff
                              /\ staff' \ staff = {r \in staff' : r.staff_id = key}]_vars

\* C19's case: the generated key is the key of a stored row, whose only
\* audit record is that of its own INSERT
C19_Witness ==
    /\ last.op = "create_patient" /\ last.outcome = "StorageFailure"
    /\ \E r \in patients : r.patient_id = last.key /\ r.name # last.body.name
    /\ Len(audit_log) = 1

\* The same create sent to the relational API, then to the document API
SameCreateOnBothPaths ==
    /\ \/ last.op = "create_patient" /\ last'.op = "mongo.create_patient"
       \/ last.op = "create_staff" /\ last'.op = "mongo.create_staff"
    /\ last'.body = last.body

\* C20: the relational path and the document path give every create request
\* (same entity kind, same payload) the same verdict: one accepts it if and
\* only if the other does. A key collision is a storage failure, not a verdict.
C20_SameVerdict ==
    [][(SameCreateOnBothPaths /\ last.outcome # "StorageFailure") =>
          (last.outcome = "created" <=> last'.outcome = "created")]_vars

\* C21: on the document path every create, replace and patch of every entity
\* kind validates the document to be stored against the collection's declared
\* shape contract before the write, and writes nothing when validation fails:
\* every stored document satisfies the contract of its collection.
C21_StoredDocumentsValid ==
    /\ \A i \in DOMAIN patients_coll : patients_schema(patients_coll[i])
    /\ \A i \in DOMAIN staff_coll : staffs_schema(staff_coll[i])
    /\ \A i \in DOMAIN services_weekly_coll : services_weekly_schema(services_weekly_coll[i])
    /\ \A i \in DOMAIN staff_schedule_coll : staff_schedule_schema(staff_schedule_coll[i])

DeleteOps ==
    {"delete_patient", "delete_staff", "delete_staff_schedule", "delete_service_weekly",
     "mongo.delete_patient", "mongo.delete_staff"}

\* C22: a delete of any entity runs no validators and is not captured in the
\* audit trail: audit_log and validation_errors are the same after a delete
\* as before it, whether or not the key existed.
C22_DeleteNotAudited ==
    [][last'.op \in DeleteOps =>
          /\ UNCHANGED <<audit_log, validation_errors>>
          /\ last'.outcome \in {"deleted", "NotFound"}]_vars

\* C22's case: a staff row with an audit record has been deleted
C22_Witness ==
    /\ last.op = "delete_staff" /\ last.count = 1
    /\ \A r \in staff : r.staff_id # last.key
    /\ \E i \in DOMAIN audit_log : audit_log[i].row_pk = Some(last.key)

\* C23: deleting a staff record never deletes schedule rows: every schedule
\* row that referenced the deleted key still exists afterwards with its staff
\* reference set to null and its other fields unchanged, on both backends.
C23_StaffDeleteNullsReference ==
    [][/\ last'.op = "delete_staff" =>
             staff_schedule' =
                {IF r.staff_id = Some(last'.key) THEN [r EXCEPT !.staff_id = NULL] ELSE r :
                    r \in staff_schedule}
       /\ (/\ last'.op = "mongo.delete_staff"
           /\ last'.count = 1
           /\ \A i \in DOMAIN staff_coll' : staff_coll'[i].staff_id # Some(last'.key)) =>
             /\ Len(staff_schedule_coll') = Len(staff_schedule_coll)
             /\ \A i \in DOMAIN staff_schedule_coll :
                   staff_schedule_coll'[i] =
                      IF staff_schedule_coll[i].staff_id = Some(last'.key)
                      THEN [staff_schedule_coll[i] EXCEPT !.staff_id = NULL]
                      ELSE staff_schedule_coll[i]]_vars

\* The rules of the insert procedure a patient violates
ViolatedRules(b) ==
    {f \in {"satisfaction"} :
        b.satisfaction # NULL /\ (b.satisfaction[1] < 0 \/ b.satisfaction[1] > 100)}
    \cup {f \in {"age"} : b.age # NULL /\ b.age[1] < 0}

\* C24: rule validation does not short-circuit: when a candidate patient
\* violates several rules at once, the single rejection message reported to
\* the caller and stored in the RejectionRecord names every violation, once.
C24_AllViolationsReported ==
    [][(last'.op = "call_sp_insert_patient" /\ ViolatedRules(last'.body) # {}) =>
          LET msg == last'.error_message
              rec == validation_errors'[Len(validation_errors')]
          IN /\ Len(validation_errors') = Len(validation_errors) + 1
             /\ rec.error_message = msg
             /\ Len(msg) = Cardinality(ViolatedRules(last'.body))
             /\ \A f \in ViolatedRules(last'.body) :
                   \E i \in DOMAIN msg :
                      msg[i].field = f /\ Some(msg[i].value) = last'.body[f]]_vars

\* C24's case: a patient with a satisfaction of 150 and an age of -1 rejected
C24_Witness ==
    /\ last.op = "call_sp_insert_patient"
    /\ ViolatedRules(last.body) = {"satisfaction", "age"}
    /\ Len(validation_errors) >= 1
    /\ validation_errors[Len(validation_errors)].error_message = last.error_message
    /\ {last.error_message[i].field : i \in DOMAIN last.error_message} =
          {"satisfaction", "age"}

\* Every stored staff row has a role and a service that are null or in the sets
StaffLabelsIn(roles, services) ==
    \A r \in staff :
       /\ r.role = NULL \/ \E v \in roles : r.role = Some(v)
       /\ r.service = NULL \/ \E v \in services : r.service = Some(v)

\* C25 as stated: the stored role of every staff record is null or one of
\* doctor, nurse, nursing_assistant, admin, and the stored service is null or
\* one of emergency, surgery, general_medicine, ICU, front_desk.
C25_CanonicalLabels ==
    StaffLabelsIn({"doctor", "nurse", "nursing_assistant", "admin"},
                  {"emergency", "surgery", "general_medicine", "ICU", "front_desk"})

\* C25, amended: the stored role of every staff record is null or one of
\* doctor, nurse, nursing_assistant, ADMIN, and the stored service is null or
\* one of emergency, surgery, general_medicine, ICU, FRONT DESK; the values
\* are written as these strings, never as enum objects.
C25_EnumValuesStored ==
    StaffLabelsIn({"doctor", "nurse", "nursing_assistant", "ADMIN"},
                  {"emergency", "surgery", "general_medicine", "ICU", "FRONT DESK"})

\* C25's case: staff rows written by a create, a replace and a patch
C25_Witness ==
    /\ last.op = "patch_staff" /\ last.outcome = "updated"
    /\ \E r \in staff : r.staff_id = last.key /\ r.service = Some("surgery")
    /\ \E i \in DOMAIN audit_log :
          /\ audit_log[i].operation = "UPDATE"
          /\ audit_log[i].new_values[1].service = "FRONT DESK"

\* The positions of the audit records of a staff key
StaffAuditOf(key) ==
    {i \in DOMAIN audit_log :
        audit_log[i].table_name = "staff" /\ audit_log[i].row_pk = Some(key)}

\* C26: stored state and audit trail stay consistent for staff: while a staff
\* row exists and audit_log holds a record for its key, the after-state of the
\* most recent such record equals the stored row, and the before-state of
\* each UPDATE record equals the after-state of the previous record of the key.
C26_AuditMatchesRow ==
    /\ \A r \in staff :
          StaffAuditOf(r.staff_id) # {} =>
             LET n == CHOOSE i \in StaffAuditOf(r.staff_id) :
                         \A j \in StaffAuditOf(r.staff_id) : j <= i
             IN audit_log[n].new_values = Some(StaffSnapshot(r))
    /\ \A key \in StaffIds :
          \A i, j \in StaffAuditOf(key) :
             (/\ i < j
              /\ \A k \in StaffAuditOf(key) : ~(i < k /\ k < j)
              /\ audit_log[j].operation = "UPDATE") =>
                audit_log[j].old_values = audit_log[i].new_values

\* C27: every patch or replace request that ends with a success response
\* wrote to a row that existed when its write executed, even when a delete of
\* the same key runs between the request's existence check and its write.
C27_SuccessWroteARow ==
    [][(last' # last /\ last'.outcome = "updated") =>
          CASE last'.op \in {"patch_patient", "update_patient"} ->
                  \E r \in patients : r.patient_id = last'.key
            [] last'.op \in {"mongo.patch_patient", "mongo.update_patient"} ->
                  \E i \in DOMAIN patients_coll :
                     patients_coll[i].patient_id = Some(last'.key)
            [] OTHER -> TRUE]_vars

\* The value a patch stores for a field: the document API keeps dates as ISO strings
StoredValue(op, f, v) ==
    IF op = "mongo.patch_patient" /\ f \in {"arrival_date", "departure_date"} /\ v # NULL
    THEN Some([iso |-> v[1]])
    ELSE v

\* The patient records of a key before and after the step; the document API
\* writes the first document of the key
PatientRecords(op, key) ==
    IF op = "patch_patient"
    THEN {<<r, q>> \in patients \X patients' : r.patient_id = key /\ q.patient_id = key}
    ELSE IF find_one(patients_coll, key) = 0 \/ Len(patients_coll') # Len(patients_coll)
    THEN {}
    ELSE {<<patients_coll[find_one(patients_coll, key)],
            patients_coll'[find_one(patients_coll, key)]>>}

\* C29: two concurrent patches to the same existing key that assign disjoint
\* sets of fields both take effect: whatever the order of their reads and
\* writes, each write stores its own fields and leaves every other field as
\* it was, so the row after the second write carries the values of both.
C29_DisjointPatchesBothApply ==
    [][(/\ last' # last
        /\ last'.op \in {"patch_patient", "mongo.patch_patient"}
        /\ last'.outcome = "updated") =>
          \A rq \in PatientRecords(last'.op, last'.key) :
             LET mine == FieldsToApply(last'.op, last'.body)
             IN /\ \A f \in mine : rq[2][f] = StoredValue(last'.op, f, last'.body.data[f])
                /\ \A f \in DOMAIN rq[1] \ mine : rq[2][f] = rq[1][f]
                /\ (/\ last.op = last'.op /\ last.key = last'.key
                    /\ last.outcome = "updated"
                    /\ "in_flight" \in DOMAIN last
                    /\ FieldsToApply(last.op, last.body) \cap mine = {}) =>
                      \A f \in FieldsToApply(last.op, last.body) :
                         rq[2][f] = StoredValue(last.op, f, last.body.data[f])]_vars

\* C29's case: a patch has written its field while a patch of other fields of
\* the same row, which read the row before that write, waits for its own write
C29_Witness ==
    /\ last.op = "patch_patient" /\ last.outcome = "updated" /\ "in_flight" \in DOMAIN last
    /\ \E r \in patients : r.patient_id = last.key /\ r.satisfaction = Some(90)
    /\ \E request \in pending :
          /\ request.op = "patch_patient" /\ request.key = last.key
          /\ FieldsToApply(request.op, request.body) # {}
          /\ FieldsToApply(request.op, request.body)
                \cap FieldsToApply(last.op, last.body) = {}

\* No two documents of a collection carry the same value of a key field
KeyUniqueIn(coll, field) ==
    \A i, j \in DOMAIN coll : coll[i][field] = coll[j][field] => i = j

\* C28: business keys are unique within each entity kind on both backends:
\* no two stored patient records share a patient_id and no two stored staff
\* records share a staff_id, even when the generator returns a key in use.
C28_BusinessKeysUnique ==
    /\ \A r, q \in patients : r.patient_id = q.patient_id => r = q
    /\ \A r, q \in staff : r.staff_id = q.staff_id => r = q
    /\ KeyUniqueIn(patients_coll, "patient_id")
    /\ KeyUniqueIn(staff_coll, "staff_id")

ScheduleWriteOps == {"create_staff_schedule", "update_staff_schedule", "patch_staff_schedule"}

\* The staff key a schedule request asks to store, NULL when it names none
NamedStaffKey(response) ==
    IF response.op = "patch_staff_schedule"
    THEN IF "staff_id" \in response.body.fields_set THEN response.body.data.staff_id ELSE NULL
    ELSE response.body.staff_id

\* The request names a staff key that no staff row carries
NamesMissingStaff(response) ==
    /\ response.op \in ScheduleWriteOps
    /\ NamedStaffKey(response) # NULL
    /\ \A r \in staff : r.staff_id # NamedStaffKey(response)[1]

\* Every staff_schedule row references no staff row or an existing one
ReferencesResolve(schedule, stafftbl) ==
    \A row \in schedule :
       row.staff_id = NULL \/ \E r \in stafftbl : r.staff_id = row.staff_id[1]

\* The request passes the schema and, for a replace or patch, its row exists
TargetsStoredRow(response) ==
    /\ response.outcome # "ShapeError"
    /\ response.op # "create_staff_schedule" =>
          \E row \in staff_schedule : row.id = response.key

\* C30 as stated: on the relational path the staff_id of every staff_schedule
\* row is null or the key of an existing staff row, and every schedule
\* create, replace or patch that names a nonexistent staff key fails at
\* storage and changes no row.
C30_ReferenceEnforced ==
    [][/\ ReferencesResolve(staff_schedule', staff')
       /\ (nreq' # nreq /\ NamesMissingStaff(last')) =>
             last'.outcome = "StorageFailure" /\ staff_schedule' = staff_schedule]_vars

\* C30, amended: on the relational path the staff_id of every staff_schedule
\* row is null or the key of an existing staff row, and a well-formed schedule
\* create, or a well-formed replace or patch of an existing schedule row, that
\* names a nonexistent staff key fails at storage and changes no row.
C30_ReferenceEnforcedOnStoredRows ==
    [][/\ ReferencesResolve(staff_schedule', staff')
       /\ (nreq' # nreq /\ NamesMissingStaff(last') /\ TargetsStoredRow(last')) =>
             last'.outcome = "StorageFailure" /\ staff_schedule' = staff_schedule]_vars

\* C30's case: a replace or patch of a stored schedule row named a staff key
\* that no staff row carries, and storage refused it
C30_Witness ==
    /\ last.op \in {"update_staff_schedule", "patch_staff_schedule"}
    /\ last.outcome = "StorageFailure"
    /\ NamesMissingStaff(last)
    /\ \E row \in staff_schedule : row.id = last.key
====
